---- MODULE Spec2Model ----
(***************************************************************************)
(* Model of mcp-local-rag: the RAGServer tool handlers (ingest_file,       *)
(* memorize_text, update_memory, delete_file, cleanup_expired, list_files, *)
(* query_documents), the VectorStore they share and the Embedder.          *)
(*                                                                         *)
(* Every handler is an async function; it is modelled as a call record     *)
(* that moves from one await to the next (field pc).  The store engine     *)
(* (LanceDB) is an external collaborator: one engine call (table.delete,   *)
(* table.add, table.query, a vector or full-text search) is one atomic     *)
(* step that either takes effect or throws.                                *)
(*                                                                         *)
(* Encodings.  Strings that the code builds by concatenation are tuples:   *)
(* a file path is <<"/", base, ext>>, a memory path <<"memory://", label>>.*)
(* A text is a sequence of characters.  ISO-8601 timestamps are integers   *)
(* (the code compares them as strings, which orders them as instants);     *)
(* NoTime stands for null.  An optional argument is <<>> when it is        *)
(* undefined and <<v>> when it is given.  The table is a bag of rows: the  *)
(* id column (a fresh UUID per row) is the multiplicity.                   *)
(***************************************************************************)
EXTENDS Integers, Sequences, FiniteSets, Bags, TLC

\* ------------------------------------------------------------------ bounds
\* The clock stops advancing at MaxTime.
MaxTime == 1
\* update_memory is not started when the reassembled text would be longer.
MaxTextLen == 3
\* Embedder.initialize is not called again after MaxLoads calls.
MaxLoads == 1
\* A fault that makes a source keep rows of two versions (memorize_text's
\* existence check or delete throwing, ingest_file's insert throwing with a
\* backup at hand) is not injected when the source would get more rows than this.
MaxRowsPerPath == 3

\* ------------------------------------------------------- program constants
\* handleIngestFile backs up through search(queryVector, { limit: 20 }).
BackupLimit == 20
\* search over-fetches limit * 3 candidates on the dense-only path.
VectorOverFetch == 3
\* HYBRID_SEARCH_CANDIDATE_MULTIPLIER
HybridCandidateMultiplier == 2
\* handleQueryDocuments: limit: args.limit || 10
DefaultLimit == 10
\* search: limit > 20 is rejected
MaxLimit == 20

\* ------------------------------------------------------------------ values
Null == "null"
NoTime == -1
Undefined == <<>>
Some(v) == <<v>>
IsGiven(o) == o # <<>>
NoErr == [name |-> "none", msg |-> <<>>]
IsErr(e) == e.name # "none"

F1 == <<"/", "a", "txt">>
L1 == <<"m1">>
L2 == <<"m2">>
MemoryPrefix == "memory://"

\* `memory://${label}`
MemoryPath(label) == <<MemoryPrefix, label>>
\* filePath.startsWith('memory://')
IsMemoryPath(p) == p[1] = MemoryPrefix
\* args.filePath.split('/').pop() || args.filePath
FileNameOf(p) == <<p[2], ".", p[3]>>
\* args.filePath.split('.').pop() || ''
FileTypeOf(p) == p[3]

NL == "\n"
TextA == <<"a">>
TextB == <<"b">>
TextAB == <<"a", NL, "b">>
\* The texts a client sends and the texts the parser extracts from a file.
InputTexts == {<<>>, TextA, TextAB}

RECURSIVE SplitLines(_, _)
\* The splitter (RecursiveCharacterTextSplitter, an external library) at a
\* chunk size of one line: the windows are the non-empty lines of the text.
SplitLines(text, cur) ==
    IF text = <<>> THEN (IF cur = <<>> THEN <<>> ELSE <<cur>>)
    ELSE IF Head(text) = NL
         THEN (IF cur = <<>> THEN <<>> ELSE <<cur>>) \o SplitLines(Tail(text), <<>>)
         ELSE SplitLines(Tail(text), Append(cur, Head(text)))

\* The splitter at a chunk size of two lines and an overlap of one line:
\* each window but the first starts with the line the one before ends with.
SplitOverlapping(lines) ==
    IF Len(lines) <= 1 THEN lines
    ELSE [i \in 1..(Len(lines) - 1) |-> lines[i] \o <<NL>> \o lines[i + 1]]

\* this.splitter.splitText(text) of a splitter built with chunkOverlap overlap.
SplitText(text, overlap) ==
    IF overlap = 0 THEN SplitLines(text, <<>>)
    ELSE SplitOverlapping(SplitLines(text, <<>>))

RECURSIVE JoinLines(_)
\* sortedChunks.map((chunk) => chunk.text).join('\n')
JoinLines(texts) ==
    IF texts = <<>> THEN <<>>
    ELSE IF Len(texts) = 1 THEN texts[1]
    ELSE texts[1] \o <<NL>> \o JoinLines(Tail(texts))

ZeroVector == <<"zero">>
\* Embedder.embed on a loaded model: the zero vector for the empty text,
\* else the model's vector for that text (the model is a function of the text).
EmbedText(text) == IF Len(text) = 0 THEN ZeroVector ELSE <<"vec", text>>

\* texts.map(embed): one vector per text, in order.
EmbedTexts(texts) == [i \in 1..Len(texts) |-> EmbedText(texts[i])]

RECURSIVE EmbedBatchLastFirst(_, _)
\* A batch loop that puts the vectors of each later group in front.
EmbedBatchLastFirst(texts, size) ==
    IF Len(texts) = 0 THEN <<>>
    ELSE LET n == IF size < Len(texts) THEN size ELSE Len(texts)
         IN EmbedBatchLastFirst(SubSeq(texts, n + 1, Len(texts)), size)
               \o EmbedTexts(SubSeq(texts, 1, n))

RECURSIVE EmbedBatch(_, _)
\* The loop of Embedder.embedBatch on a loaded model, for a batch size of
\* one or more: the next size texts are sliced off and embedded together
\* (Promise.all keeps their order), and their vectors are pushed on the
\* end of the vectors so far.
EmbedBatch(texts, size) ==
    IF Len(texts) = 0 THEN <<>>
    ELSE LET n == IF size < Len(texts) THEN size ELSE Len(texts)
         IN EmbedTexts(SubSeq(texts, 1, n))
               \o EmbedBatch(SubSeq(texts, n + 1, Len(texts)), size)

\* ------------------------------------------------------------------ errors
DatabaseError(m) == [name |-> "DatabaseError", msg |-> <<m>>]
EmbeddingError(m) == [name |-> "EmbeddingError", msg |-> <<m>>]
PlainError(m) == [name |-> "Error", msg |-> m]
ParseError == [name |-> "ParseError", msg |-> <<"parse failed">>]
InsertFailed == DatabaseError("Failed to insert chunks")
NotInitialized == EmbeddingError("Embedder is not initialized. Call initialize() first.")
BatchFailed == EmbeddingError("Failed to generate batch embeddings: ")
ChunkerNotInitialized == PlainError(<<"DocumentChunker not initialized">>)
InvalidPath == PlainError(<<"Invalid file path">>)
RollbackFailedPrefix == "Failed to ingest file and rollback failed: "

\* The handlers' outer catch: new Error(`${prefix}${errorMessage}`), where
\* errorMessage is the message in production and the stack (name, message,
\* frames) otherwise.
Wrap(prefix, e, production) ==
    PlainError(<<prefix>> \o (IF production THEN e.msg
                              ELSE <<e.name, ": ">> \o e.msg \o <<"<stack>">>))

\* -------------------------------------------------------------------- rows
Metadata(fileName, fileSize, fileType, language, memoryType, tags, project, expiresAt, createdAt, updatedAt) ==
    [fileName |-> fileName, fileSize |-> fileSize, fileType |-> fileType,
     language |-> language, memoryType |-> memoryType, tags |-> tags,
     project |-> project, expiresAt |-> expiresAt, createdAt |-> createdAt,
     updatedAt |-> updatedAt]

\* A VectorChunk without its id.
Row(filePath, chunkIndex, text, vector, metadata, timestamp) ==
    [filePath |-> filePath, chunkIndex |-> chunkIndex, text |-> text,
     vector |-> vector, metadata |-> metadata, timestamp |-> timestamp]

\* chunks.map((chunk, index) => ({ ..., chunkIndex: chunk.index, ... }))
VectorChunks(filePath, chunks, emb, metadata, timestamp) ==
    SetToBag({Row(filePath, i - 1, chunks[i], emb[i], metadata, timestamp) :
              i \in 1..Len(chunks)})

\* The rows of a bag that a predicate keeps.
Keep(t, P(_)) == [r \in {x \in DOMAIN t : P(x)} |-> t[r]]

\* The image of a bag under a map of its rows.
MapBag(t, F(_)) ==
    [y \in {F(x) : x \in DOMAIN t} |->
        BagCardinality([x \in {z \in DOMAIN t : F(z) = y} |-> t[x]])]

RowsOf(t, p) == Keep(t, LAMBDA r : r.filePath = p)
PathsOf(t) == {r.filePath : r \in DOMAIN t}

\* VectorStore's validateFilePath: a memory path needs a label of word
\* characters, dots and hyphens; a file path must be absolute and free of
\* ; ' " \ ` and control characters.
InvalidLabels == {<<"bad label">>, <<"a/b">>, <<>>}

\* The character U+0060, which a string of this language cannot hold.
Backtick == "U+0060"
\* The base of a path: a, a backtick, b.
BacktickBase == "a<U+0060>b"

\* The characters of the regular expression for dangerous characters:
\* semicolon, single quote, double quote, backslash, backtick.
DangerousChars == {";", "'", "\"", "\\", Backtick}
\* char.charCodeAt(0) < 32, of the characters in use: tab and newline.
ControlChars == {"\t", NL}

\* filePath.split(''), for the base of a file path.
BaseChars(base) ==
    CASE base = "a'b" -> <<"a", "'", "b">>
      [] base = "a\"b" -> <<"a", "\"", "b">>
      [] base = "a\\b" -> <<"a", "\\", "b">>
      [] base = BacktickBase -> <<"a", Backtick, "b">>
      [] base = "a;b" -> <<"a", ";", "b">>
      [] base = "a\tb" -> <<"a", "\t", "b">>
      [] OTHER -> <<base>>

\* A validator that looks for quotes only.
ValidFilePathQuotes(p) ==
    IF p = <<>> THEN FALSE
    ELSE IF IsMemoryPath(p) THEN p[2] \notin InvalidLabels
    ELSE /\ p[1] = "/"
         /\ \A i \in DOMAIN BaseChars(p[2]) : BaseChars(p[2])[i] \notin {"'", "\""}

ValidFilePath(p) ==
    IF p = <<>> THEN FALSE
    ELSE IF IsMemoryPath(p) THEN p[2] \notin InvalidLabels
    ELSE /\ p[1] = "/"
         /\ \A i \in DOMAIN BaseChars(p[2]) :
               BaseChars(p[2])[i] \notin DangerousChars \cup ControlChars

\* A delete that removes nothing.
DeleteNothing(t, p) == t

\* this.table.delete(`filePath = '...'`): every row of the path goes.
DeleteRows(t, p) == Keep(t, LAMBDA r : r.filePath # p)

\* this.table.add(records) and db.createTable(name, records)
AddRows(t, rows) == t (+) rows

RECURSIVE KSubBags(_, _)
\* The bags of k rows drawn from bag t.
KSubBags(t, k) ==
    IF k = 0 THEN {EmptyBag}
    ELSE IF BagCardinality(t) < k THEN {}
    ELSE IF BagCardinality(t) = k THEN {t}
    ELSE LET r == CHOOSE x \in DOMAIN t : TRUE
             rest == Keep(t, LAMBDA x : x # r)
             Copies(n) == IF n = 0 THEN EmptyBag ELSE [x \in {r} |-> n]
             top == IF t[r] < k THEN t[r] ELSE k
         IN UNION {{Copies(n) (+) b : b \in KSubBags(rest, k - n)} : n \in 0..top}

Min(a, b) == IF a < b THEN a ELSE b

RECURSIVE AnyOrders(_)
\* Every order of the rows of a bag.
AnyOrders(b) ==
    IF b = EmptyBag THEN {<<>>}
    ELSE UNION {{<<r>> \o rest : rest \in AnyOrders(b (-) SetToBag({r}))} : r \in DOMAIN b}

\* The rows of a sequence, as a bag.
BagOfSeq(seq) ==
    [x \in {seq[i] : i \in 1..Len(seq)} |-> Cardinality({i \in 1..Len(seq) : seq[i] = x})]

\* table.vectorSearch(q).limit(k).toArray(): the k rows nearest to q.  Which
\* rows are nearest is the embedding model's business: any k of them.
VectorSearch(t, k) == KSubBags(t, Min(k, BagCardinality(t)))

\* VectorStore.search(queryVector, { limit }) with no query text and the
\* default configuration (no maxDistance, no grouping): the dense-only path
\* fetches limit * 3 candidates and returns the first limit of them.
SearchDense(t, limit) ==
    UNION {VectorSearch(c, limit) : c \in VectorSearch(t, limit * VectorOverFetch)}

\* --------------------------------------------------------------- variables
VARIABLES
    table,       \* the rows of the chunks table (a bag)
    tableOpen,   \* VectorStore.table # null
    ftsEnabled,  \* VectorStore.ftsEnabled
    unindexed,   \* the rows that the full-text index does not cover yet
    config,      \* VectorStore.config: maxDistance and grouping
    schema,      \* the schema of the table in the database directory
    serverInit,  \* RAGServer.initialize() has run: db connected, splitter built
    chunkOverlap, \* DocumentChunker.config.chunkOverlap, in lines
    embModel,    \* Embedder.model # null
    loads,       \* how many times pipeline() was invoked
    initCalls,   \* Embedder.initialize() calls awaiting pipeline()
    batchSize,   \* Embedder.config.batchSize
    now,         \* the clock
    call,        \* the tool calls in flight, one record per slot
    ecall        \* direct callers of Embedder.embed

vars == <<table, tableOpen, ftsEnabled, unindexed, config, schema, serverInit, chunkOverlap, embModel,
          loads, initCalls,
          batchSize, now, call, ecall>>
storeVars == <<table, tableOpen, ftsEnabled, unindexed, config, schema>>
embedderVars == <<embModel, loads, initCalls, batchSize>>

\* DocumentChunker.chunkText: [] for the empty text, else the splitter's
\* windows, indexed 0, 1, ... in order (the index is the position - 1).
ChunkText(text) == IF Len(text) = 0 THEN <<>> ELSE SplitText(text, chunkOverlap)

\* batchSize: 8 in the server's configuration of the Embedder.
DefaultBatchSize == 8

Slots == {1, 2}
Callers == {1, 2, 3}

NoArgs == [none |-> TRUE]
IdleCall ==
    [pc |-> "idle", op |-> "none", path |-> <<>>, a |-> NoArgs, text |-> <<>>,
     chunks |-> <<>>, emb |-> <<>>, lang |-> Null, tags |-> <<>>, ts |-> NoTime,
     meta |-> NoArgs, backup |-> EmptyBag, newRows |-> EmptyBag,
     insertErr |-> NoErr, rollbackErr |-> NoErr, pre |-> EmptyBag,
     todo |-> {}, count |-> 0, first |-> EmptyBag, last |-> EmptyBag,
     fts |-> <<>>, dense |-> <<>>, fused |-> <<>>, stale |-> {},
     got |-> <<>>, sortedChunks |-> <<>>,
     results |-> <<>>, den |-> 1, report |-> NoArgs,
     obs |-> EmptyBag, files |-> {}, status |-> "none", err |-> NoErr]

\* A direct call of Embedder.embed or Embedder.embedBatch.  sawModel,
\* afterFailure and loaded are history: whether the model was loaded when the
\* call was made, whether a load had failed before it, and how many times
\* the call itself invoked pipeline().
IdleCaller ==
    [pc |-> "idle", kind |-> "none", texts |-> <<>>, vectors |-> <<>>,
     sawModel |-> FALSE, afterFailure |-> FALSE, loaded |-> 0, err |-> NoErr]

\* The configuration without a distance threshold and without grouping.
DefaultConfig == [maxDistance |-> Undefined, grouping |-> Undefined]

Init ==
    /\ table = EmptyBag
    /\ tableOpen = FALSE
    /\ ftsEnabled = FALSE
    /\ unindexed = EmptyBag
    /\ config = DefaultConfig
    /\ schema = "none"
    /\ serverInit = FALSE
    /\ chunkOverlap = 0
    /\ embModel = FALSE
    /\ loads = 0
    /\ initCalls = 0
    /\ batchSize = DefaultBatchSize
    /\ now = 0
    /\ call = [s \in Slots |-> IdleCall]
    /\ ecall = [c \in Callers |-> IdleCaller]

\* ------------------------------------------------------------- environment
\* Time passes.
Tick ==
    /\ now < MaxTime
    /\ now' = now + 1
    /\ UNCHANGED <<storeVars, serverInit, chunkOverlap, embedderVars, call, ecall>>

\* RAGServer.initialize on a fresh database directory: the store connects
\* (no table yet: it is created by the first insert) and the chunker builds
\* its splitter.
ServerInitialize ==
    /\ ~serverInit
    /\ serverInit' = TRUE
    /\ UNCHANGED chunkOverlap
    /\ UNCHANGED <<storeVars, embedderVars, now, call, ecall>>

\* The metadata of a row of the old schema: without memoryType, tags, project,
\* expiresAt, createdAt and updatedAt.
LegacyMetadata(fileName, fileSize, fileType, language) ==
    [fileName |-> fileName, fileSize |-> fileSize, fileType |-> fileType,
     language |-> language]

\* A migration that stamps the rows with the time of the migration.
MigrateRecordNow(r, t) ==
    [r EXCEPT !.metadata = Metadata(r.metadata.fileName, r.metadata.fileSize,
                                    r.metadata.fileType, r.metadata.language,
                                    Null, <<>>, Null, NoTime, t, t)]

\* migrateTable's transform of one record at time t: a field that the record
\* lacks, or whose value is falsy, gets its default; createdAt and updatedAt
\* default to the record's timestamp, and to the time of the migration when
\* that is missing too.
MigrateRecord(r, t) ==
    LET raw == r.metadata
        Get(name, default) == IF name \in DOMAIN raw THEN raw[name] ELSE default
        stamp == IF r.timestamp # NoTime THEN r.timestamp ELSE t
        created == Get("createdAt", NoTime)
        updated == Get("updatedAt", NoTime)
    IN [r EXCEPT
          !.metadata =
              Metadata(IF Get("fileName", <<>>) # <<>> THEN raw.fileName ELSE <<"unknown">>,
                       Get("fileSize", 0),
                       IF Get("fileType", "") # "" THEN raw.fileType ELSE "unknown",
                       Get("language", Null), Get("memoryType", Null), Get("tags", <<>>),
                       Get("project", Null), Get("expiresAt", NoTime),
                       IF created # NoTime THEN created ELSE stamp,
                       IF updated # NoTime THEN updated ELSE stamp),
          !.timestamp = stamp]

\* How VectorStore.initialize() can end on the database directory as it is:
\* "ok", or a throw of connect / tableNames ("connect"), of openTable
\* ("open") or, in a migration, of the read of the records ("read"), of
\* dropTable ("drop") or of createTable ("create").
StoreInitOutcomes(migrates) ==
    IF schema = "none" THEN {"ok", "connect"}
    ELSE IF ~migrates THEN {"ok", "connect", "open"}
    ELSE IF table = EmptyBag THEN {"ok", "connect", "open", "read", "drop"}
    ELSE {"ok", "connect", "open", "read", "drop", "create"}

\* RAGServer.initialize() of a new process on the database directory as it
\* is: VectorStore.initialize(), then chunker.initialize().  An existing
\* table is opened; it is migrated when its schema lacks a field, and also
\* when the schema cannot be read (schemaFails): all records are read, the
\* table is dropped, and a table with the migrated records is created (an
\* empty table is dropped only, and created again by the first insert).
\* Then ensureFtsIndex creates the index, and a failure of that (~indexOk)
\* only leaves ftsEnabled false.  Every throw ends initialize() with
\* DatabaseError, and the process with it.
StoreInitialize(out, schemaFails, indexOk) ==
    /\ ~serverInit
    /\ \A s \in Slots : call[s].pc = "idle"
    /\ LET migrates == schema = "legacy" \/ (schema # "none" /\ schemaFails)
       IN /\ out \in StoreInitOutcomes(migrates)
          /\ IF out = "ok"
             THEN /\ serverInit' = TRUE
                  /\ IF schema = "none"
                     THEN UNCHANGED <<table, tableOpen, ftsEnabled, schema>>
                     ELSE IF migrates /\ table = EmptyBag
                     THEN /\ schema' = "none"
                          /\ UNCHANGED <<table, tableOpen, ftsEnabled>>
                     ELSE /\ table' = IF migrates
                                      THEN MapBag(table, LAMBDA r : MigrateRecord(r, now))
                                      ELSE table
                          /\ schema' = "current"
                          /\ tableOpen' = TRUE
                          /\ ftsEnabled' = indexOk
             ELSE /\ IF out = "create"
                     THEN table' = EmptyBag /\ schema' = "none"
                     ELSE UNCHANGED <<table, schema>>
                  /\ UNCHANGED <<tableOpen, ftsEnabled, serverInit>>
    /\ UNCHANGED <<unindexed, config, chunkOverlap, embedderVars, now, call, ecall>>

\* Embedder.initialize up to its await: pipeline() is invoked.
InitializeStart ==
    /\ loads < MaxLoads
    /\ initCalls' = initCalls + 1
    /\ loads' = loads + 1
    /\ UNCHANGED <<storeVars, serverInit, chunkOverlap, embModel, batchSize, now, call, ecall>>

\* pipeline() resolves (this.model is set) or rejects (EmbeddingError).
InitializeFinish(ok) ==
    /\ initCalls > 0
    /\ initCalls' = initCalls - 1
    /\ embModel' = (embModel \/ ok)
    /\ UNCHANGED <<storeVars, serverInit, chunkOverlap, loads, batchSize, now, call, ecall>>

\* -------------------------------------------------------------- validators
\* A tags argument is NotAnArray or a sequence whose elements are strings
\* (sequences of characters) or NotAString.
NotAnArray == <<<<"<object>">>>>
NotAString == <<"<number>">>
Space == " "

\* Tags: 'x', 'y', 'z' and ' x'.
TagX == <<"x">>
TagY == <<"y">>
TagZ == <<"z">>
TagXPadded == <<Space, "x">>

RECURSIVE TrimLeft(_)
TrimLeft(str) ==
    IF str # <<>> /\ Head(str) = Space THEN TrimLeft(Tail(str)) ELSE str

RECURSIVE TrimRight(_)
TrimRight(str) ==
    IF str # <<>> /\ str[Len(str)] = Space
    THEN TrimRight(SubSeq(str, 1, Len(str) - 1)) ELSE str

\* String.prototype.trim
Trim(str) == TrimRight(TrimLeft(str))

Valid(v) == [ok |-> TRUE, v |-> v, err |-> NoErr]
Invalid(m) == [ok |-> FALSE, v |-> <<>>, err |-> PlainError(<<m>>)]

\* validateTags: [] for undefined; throws for a non-array, for an element
\* that is not a string and for a blank element; else the trimmed tags.
ValidateTags(tags) ==
    IF ~IsGiven(tags) THEN Valid(<<>>)
    ELSE IF tags[1] = NotAnArray THEN Invalid("Tags must be an array")
    ELSE IF \E i \in 1..Len(tags[1]) :
               /\ tags[1][i] = NotAString
               /\ \A j \in 1..(i - 1) : Len(Trim(tags[1][j])) # 0
         THEN Invalid("All tags must be strings")
    ELSE IF \E i \in 1..Len(tags[1]) : Len(Trim(tags[1][i])) = 0
         THEN Invalid("Tags cannot be empty strings")
    ELSE Valid([i \in 1..Len(tags[1]) |-> Trim(tags[1][i])])

VALID_MEMORY_TYPES == {"memory", "lesson", "note"}
\* validateMemoryType: undefined stays undefined; a value outside the list throws.
ValidateMemoryType(type) ==
    IF ~IsGiven(type) THEN Valid(Undefined)
    ELSE IF type[1] \notin VALID_MEMORY_TYPES THEN Invalid("Invalid memory type")
    ELSE Valid(type)

VALID_UPDATE_MODES == {"replace", "append", "prepend"}
\* validateUpdateMode: undefined stays undefined; a value outside the list throws.
ValidateUpdateMode(mode) ==
    IF ~IsGiven(mode) THEN Valid(Undefined)
    ELSE IF mode[1] \notin VALID_UPDATE_MODES THEN Invalid("Invalid update mode")
    ELSE Valid(mode)

\* A ttl argument: undefined, or one of these records.  kind "duration" is a
\* string that matches /^(\d+)([dhmy])$/, kind "invalid" any other string.
Permanent == [kind |-> "permanent", n |-> 0, unit |-> "-"]
Duration(n, unit) == [kind |-> "duration", n |-> n, unit |-> unit]
BadTtl == [kind |-> "invalid", n |-> 0, unit |-> "-"]

\* The calendar.  The clock counts days; day 0 of the clock is January 31
\* of EpochYear.  A date is a year, a month index (0 = January) and a day.
EpochYear == 2025
ClockStartDay == 30

IsLeap(y) == (y % 4 = 0 /\ y % 100 # 0) \/ y % 400 = 0

DaysIn(y, m) ==
    IF m = 1 THEN (IF IsLeap(y) THEN 29 ELSE 28)
    ELSE IF m \in {3, 5, 8, 10} THEN 30 ELSE 31

RECURSIVE DaysBefore(_, _)
\* The days from January 1 of EpochYear to the first day of month m of year y.
DaysBefore(y, m) ==
    IF m > 0 THEN DaysBefore(y, m - 1) + DaysIn(y, m - 1)
    ELSE IF y > EpochYear THEN DaysBefore(y - 1, 11) + DaysIn(y - 1, 11)
    ELSE 0

\* new Date(y, m, d): a month index above 11 runs into the next years and a
\* day above the length of the month runs into the next months.
DateValue(y, m, d) == DaysBefore(y + m \div 12, m % 12) + d - 1

RECURSIVE DateFrom(_, _, _)
\* The date that lies rest days after the first day of month m of year y.
DateFrom(y, m, rest) ==
    IF rest < DaysIn(y, m) THEN [y |-> y, m |-> m, d |-> rest + 1]
    ELSE IF m = 11 THEN DateFrom(y + 1, 0, rest - DaysIn(y, m))
    ELSE DateFrom(y, m + 1, rest - DaysIn(y, m))

\* getFullYear, getMonth and getDate of a day.
DateOf(day) == DateFrom(EpochYear, 0, day)

\* Date.prototype.setDate, setMonth and setFullYear on the date of a day.
SetDate(day, d) == DateValue(DateOf(day).y, DateOf(day).m, d)
SetMonth(day, m) == DateValue(DateOf(day).y, m, DateOf(day).d)
SetFullYear(day, y) == DateValue(y, DateOf(day).m, DateOf(day).d)

\* calculateExpiresAt(ttl) at time t: undefined for no ttl and 'permanent';
\* a throw unless the ttl matches /^(\d+)([dhmy])$/; else now moved by the
\* value in days, hours, months or years.  The clock counts days: hours move
\* it by the whole days they make.
CalculateExpiresAt(ttl, t) ==
    IF ~IsGiven(ttl) \/ ttl[1].kind = "permanent" THEN Valid(NoTime)
    ELSE IF ttl[1].kind # "duration" THEN Invalid("Invalid TTL format")
    ELSE LET today == ClockStartDay + t
             n == ttl[1].n
         IN IF ttl[1].unit = "d"
            THEN Valid(SetDate(today, DateOf(today).d + n) - ClockStartDay)
            ELSE IF ttl[1].unit = "h" THEN Valid(t + n \div 24)
            ELSE IF ttl[1].unit = "m"
            THEN Valid(SetMonth(today, DateOf(today).m + n) - ClockStartDay)
            ELSE IF ttl[1].unit = "y"
            THEN Valid(SetFullYear(today, DateOf(today).y + n) - ClockStartDay)
            ELSE Invalid("Invalid TTL format")

\* ---------------------------------------------------------- store methods
\* VectorStore.insertChunks(rows).  Nothing happens for an empty array.
\* Without a table, createTable needs the connection (else it throws) and is
\* followed by ensureFtsIndex, whose failure only leaves ftsEnabled false;
\* with a table, table.add is followed by rebuildFtsIndex, which is the
\* caller's next step (RebuildFtsIndex): until then the index lacks the new
\* rows.  Every throw is rethrown as DatabaseError('Failed to insert
\* chunks'); fails says whether the call throws.
InsertChunks(rows, fails) ==
    IF rows = EmptyBag
    THEN ~fails /\ UNCHANGED storeVars
    ELSE IF fails
    THEN UNCHANGED storeVars
    ELSE /\ tableOpen \/ serverInit
         /\ table' = AddRows(table, rows)
         /\ tableOpen' = TRUE
         /\ IF tableOpen THEN ftsEnabled' = ftsEnabled ELSE ftsEnabled' \in BOOLEAN
         /\ unindexed' = IF tableOpen /\ ftsEnabled THEN unindexed (+) rows ELSE EmptyBag
         /\ schema' = IF tableOpen THEN schema ELSE "current"
         /\ UNCHANGED config

\* A store whose delete fails for a path that has no rows.
DeleteOutcomesStrict(p) ==
    IF ~ValidFilePath(p) THEN {"invalid"}
    ELSE IF tableOpen /\ RowsOf(table, p) = EmptyBag THEN {"dberror"}
    ELSE {"ok", "dberror"}

\* How VectorStore.deleteChunks(p) can end: "invalid" (validateFilePath
\* throws a plain Error), "ok", or "dberror" (table.delete throws and the
\* message is none of the swallowed ones: DatabaseError).  Without a table
\* it returns at once.  The swallowed messages ('not found', 'does not
\* exist', 'no matching') mean that there was nothing to delete: that
\* outcome leaves the table as "ok" does.
DeleteOutcomes(p) ==
    IF ~ValidFilePath(p) THEN {"invalid"}
    ELSE IF ~tableOpen THEN {"ok"}
    ELSE {"ok", "dberror"}

\* VectorStore.deleteChunks(p) ending as out.  After table.delete the index
\* is rebuilt, and a failure of that is swallowed: the index covers every
\* row then, or the rows as before.
DeleteChunks(p, out) ==
    /\ out \in DeleteOutcomes(p)
    /\ table' = IF out = "ok" /\ tableOpen THEN DeleteRows(table, p) ELSE table
    /\ unindexed' \in IF out = "ok" /\ tableOpen /\ ftsEnabled
                      THEN {EmptyBag, DeleteRows(unindexed, p)}
                      ELSE {unindexed}
    /\ UNCHANGED <<tableOpen, ftsEnabled, config, schema>>

DeleteError(p, out) ==
    IF out = "invalid" THEN InvalidPath
    ELSE DatabaseError("Failed to delete chunks for file")

\* Whether a read of the table (table.query().toArray(), a search) can throw:
\* without a table every reader returns its empty result at once.
ReadOutcomes == IF tableOpen THEN {TRUE, FALSE} ELSE {FALSE}

\* A listing that reports every source with one chunk.
ListFilesFlat(t) == {[filePath |-> p, chunkCount |-> 1] : p \in PathsOf(t)}

\* VectorStore.listFiles(): one entry per filePath with its chunk count.
ListFiles(t) ==
    {[filePath |-> p, chunkCount |-> BagCardinality(RowsOf(t, p))] : p \in PathsOf(t)}

\* ------------------------------------------------------------ call records
\* The call of slot s ends with an error: the outer catch wraps it.
Fail(s, c, prefix, e) ==
    \E production \in BOOLEAN :
        call' = [call EXCEPT ![s] =
                    [c EXCEPT !.pc = "done", !.status = "err",
                              !.err = Wrap(prefix, e, production)]]

\* The call of slot s ends with an error that its handler rethrows as it is.
Rethrow(s, c, e) ==
    call' = [call EXCEPT ![s] = [c EXCEPT !.pc = "done", !.status = "err", !.err = e]]

\* The call of slot s returns its result.
Succeed(s, c) ==
    call' = [call EXCEPT ![s] = [c EXCEPT !.pc = "done", !.status = "ok"]]

Goto(s, c, pc) == call' = [call EXCEPT ![s] = [c EXCEPT !.pc = pc]]

\* Where insertChunks(rows) is after its write: table.add on a store with a
\* full-text index awaits rebuildFtsIndex next; createTable, and a store
\* without index, are done.
AfterWrite(rows) ==
    IF rows # EmptyBag /\ tableOpen /\ ftsEnabled THEN "rebuild" ELSE "done"

\* insertChunks(rows) wrote its rows and the handler will return its result.
Added(s, c, rows) ==
    call' = [call EXCEPT ![s] = [c EXCEPT !.pc = AfterWrite(rows), !.status = "ok"]]

\* insertChunks(rows) wrote its rows and the handler will throw e.
FailAdded(s, c, rows, prefix, e) ==
    \E production \in BOOLEAN :
        call' = [call EXCEPT ![s] =
                    [c EXCEPT !.pc = AfterWrite(rows), !.status = "err",
                              !.err = Wrap(prefix, e, production)]]

\* rebuildFtsIndex() of an insertChunks: table.optimize() brings the index
\* up to date; its throw is logged only, and the index stays as it is.
\* Without index it returns at once.
RebuildFtsIndex(s, ok) ==
    /\ call[s].pc = "rebuild"
    /\ unindexed' = IF ok \/ ~ftsEnabled THEN EmptyBag ELSE unindexed
    /\ Goto(s, call[s], "done")
    /\ UNCHANGED <<table, tableOpen, ftsEnabled, config, schema, serverInit, chunkOverlap, embedderVars,
                   now, ecall>>

\* The response was delivered: the slot is free again.
Return(s) ==
    /\ call[s].pc = "done"
    /\ call' = [call EXCEPT ![s] = IdleCall]
    /\ UNCHANGED <<storeVars, serverInit, chunkOverlap, embedderVars, now, ecall>>

\* this.embedder.embedBatch(chunks.map((chunk) => chunk.text)) in a handler:
\* throws when the model is not loaded, and when the inference fails.
EmbedOutcomes == IF embModel THEN {"ok", "inference"} ELSE {"uninitialized"}

\* An embedBatch whose inference can fail for an empty array too.
BatchOutcomesAny(texts) == EmbedOutcomes

\* How Embedder.embedBatch(texts) can end: it throws without a model, returns
\* [] at once for an empty array, and else runs the model, which can throw.
BatchOutcomes(texts) ==
    IF ~embModel THEN {"uninitialized"}
    ELSE IF Len(texts) = 0 THEN {"ok"}
    ELSE {"ok", "inference"}
EmbedError(out) == IF out = "uninitialized" THEN NotInitialized ELSE BatchFailed

\* --------------------------------------------------------------- ingest_file
IngestPrefix == "Failed to ingest file: "

\* DocumentParser.parseFile(path): the extracted text and language hint, or
\* a throw (path outside the root, unsupported extension, size, unreadable).
ParseOutcomes(p) ==
    {[ok |-> FALSE, text |-> <<>>, language |-> Null]} \cup
    (IF ValidFilePath(p) /\ ~IsMemoryPath(p)
     THEN {[ok |-> TRUE, text |-> t, language |-> Null] : t \in InputTexts}
     ELSE {})

\* handleIngestFile up to embedBatch: parseFile, chunkText.
IngestStart(s, a, parse) ==
    /\ call[s].pc = "idle"
    /\ parse \in ParseOutcomes(a.filePath)
    /\ LET c == [IdleCall EXCEPT !.op = "ingest_file", !.a = a, !.path = a.filePath,
                                 !.pre = RowsOf(table, a.filePath)]
       IN IF ~parse.ok THEN Fail(s, c, IngestPrefix, ParseError)
          ELSE IF ~serverInit THEN Fail(s, c, IngestPrefix, ChunkerNotInitialized)
          ELSE call' = [call EXCEPT ![s] =
                           [c EXCEPT !.pc = "embed", !.text = parse.text,
                                     !.lang = parse.language,
                                     !.chunks = ChunkText(parse.text)]]
    /\ UNCHANGED <<storeVars, serverInit, chunkOverlap, embedderVars, now, ecall>>

\* embedBatch of the chunk texts.
IngestEmbed(s, out) ==
    /\ call[s].pc = "embed" /\ call[s].op = "ingest_file"
    /\ out \in BatchOutcomes(call[s].chunks)
    /\ LET c == call[s]
       IN IF out # "ok" THEN Fail(s, c, IngestPrefix, EmbedError(out))
          ELSE call' = [call EXCEPT ![s] =
                           [c EXCEPT !.pc = "list", !.emb = EmbedBatch(c.chunks, batchSize)]]
    /\ UNCHANGED <<storeVars, serverInit, chunkOverlap, embedderVars, now, ecall>>

\* The backup's first read: listFiles() and the look-up of this file.  A
\* throw is caught and logged.  The backup is taken only for a file that is
\* listed and when embeddings[0] exists.
IngestList(s, readFails) ==
    /\ call[s].pc = "list" /\ call[s].op = "ingest_file"
    /\ readFails \in ReadOutcomes
    /\ LET c == call[s]
           existing == \E f \in ListFiles(table) :
                          f.filePath = c.path /\ f.chunkCount > 0
       IN IF ~readFails /\ tableOpen /\ existing /\ Len(c.emb) > 0
          THEN Goto(s, c, "backup")
          ELSE Goto(s, c, "delete")
    /\ UNCHANGED <<storeVars, serverInit, chunkOverlap, embedderVars, now, ecall>>

\* A backup row: what search returned for it, a fresh id, the query vector
\* in place of its vector and the time of the backup as its timestamp.
BackupRow(r, queryVector, t) ==
    Row(r.filePath, r.chunkIndex, r.text, queryVector, r.metadata, t)

\* The backup's second read: search(embeddings[0], { limit: 20 }), filtered
\* to this file.  A throw is caught and logged.
IngestBackup(s, readFails, found) ==
    /\ call[s].pc = "backup"
    /\ readFails \in ReadOutcomes
    /\ found \in SearchDense(table, BackupLimit)
    /\ LET c == call[s]
           mine == RowsOf(found, c.path)
       IN IF readFails \/ ~tableOpen
          THEN Goto(s, c, "delete")
          ELSE call' = [call EXCEPT ![s] =
                  [c EXCEPT !.pc = "delete",
                            !.backup = MapBag(mine, LAMBDA r : BackupRow(r, c.emb[1], now))]]
    /\ UNCHANGED <<storeVars, serverInit, chunkOverlap, embedderVars, now, ecall>>

\* metadata of the rows handleIngestFile writes.
IngestMetadata(a, text, language, timestamp) ==
    Metadata(FileNameOf(a.filePath), Len(text), FileTypeOf(a.filePath), language,
             "file", IF IsGiven(a.tags) THEN a.tags[1] ELSE <<>>,
             IF a.project # Null /\ ~a.global THEN a.project ELSE Null,
             NoTime, timestamp, timestamp)

\* deleteChunks(args.filePath); a throw ends the call.
IngestDelete(s, out) ==
    /\ call[s].pc = "delete" /\ call[s].op = "ingest_file"
    /\ DeleteChunks(call[s].path, out)
    /\ LET c == call[s]
       IN IF out # "ok" THEN Fail(s, c, IngestPrefix, DeleteError(c.path, out))
          ELSE Goto(s, c, "insert")
    /\ UNCHANGED <<serverInit, chunkOverlap, embedderVars, now, ecall>>

\* The rows are built with the time read after the delete, and inserted.
\* When the insert throws and there is a backup, the rollback follows.
IngestInsert(s, fails) ==
    /\ call[s].pc = "insert" /\ call[s].op = "ingest_file"
    /\ fails => BagCardinality(RowsOf(table, call[s].path))
                    + BagCardinality(call[s].backup) <= MaxRowsPerPath
    /\ LET c == call[s]
           rows == VectorChunks(c.path, c.chunks, c.emb,
                                IngestMetadata(c.a, c.text, c.lang, now), now)
           d == [c EXCEPT !.ts = now, !.newRows = rows, !.count = Len(c.chunks)]
       IN /\ InsertChunks(rows, fails)
          /\ IF ~fails THEN Added(s, d, rows)
             ELSE IF c.backup # EmptyBag
             THEN call' = [call EXCEPT ![s] =
                              [d EXCEPT !.pc = "rollback", !.insertErr = InsertFailed]]
             ELSE Fail(s, [d EXCEPT !.insertErr = InsertFailed], IngestPrefix, InsertFailed)
    /\ UNCHANGED <<serverInit, chunkOverlap, embedderVars, now, ecall>>

\* The insert error as the caller gets it when the rollback went through.
SameError(insertError) == insertError

\* new Error(`Failed to ingest file and rollback failed: ${insertError.message}`)
RollbackError(insertError) == PlainError(<<RollbackFailedPrefix>> \o insertError.msg)

\* insertChunks(backup).  The insert error is rethrown when the rollback
\* went through, else a new Error is thrown that carries the insert error's
\* message behind 'Failed to ingest file and rollback failed: '.
IngestRollback(s, fails) ==
    /\ call[s].pc = "rollback"
    /\ LET c == call[s]
       IN /\ InsertChunks(c.backup, fails)
          /\ IF ~fails THEN FailAdded(s, c, c.backup, IngestPrefix, c.insertErr)
             ELSE Fail(s, [c EXCEPT !.rollbackErr = InsertFailed], IngestPrefix,
                       RollbackError(c.insertErr))
    /\ UNCHANGED <<serverInit, chunkOverlap, embedderVars, now, ecall>>

IngestFile(s, Args) ==
    \/ \E a \in Args : \E parse \in ParseOutcomes(a.filePath) : IngestStart(s, a, parse)
    \/ \E out \in EmbedOutcomes : IngestEmbed(s, out)
    \/ \E readFails \in BOOLEAN : IngestList(s, readFails)
    \/ \E readFails \in BOOLEAN : \E found \in SearchDense(table, BackupLimit) :
          IngestBackup(s, readFails, found)
    \/ \E out \in DeleteOutcomes(call[s].path) : IngestDelete(s, out)
    \/ \E fails \in BOOLEAN : IngestInsert(s, fails)
    \/ \E fails \in BOOLEAN : IngestRollback(s, fails)
    \/ \E ok \in BOOLEAN : RebuildFtsIndex(s, ok)

\* ------------------------------------------------------------- memorize_text
MemorizePrefix == "Failed to memorize text: "

\* handleMemorizeText up to embedBatch: validateTags, validateMemoryType,
\* the label (given, else snippet-<Date.now()>) and chunkText.
MemorizeStart(s, a) ==
    /\ call[s].pc = "idle"
    /\ LET label == IF IsGiven(a.label) /\ a.label[1] # <<>> THEN a.label[1]
                    ELSE <<"snippet-", now>>
           vt == ValidateTags(a.tags)
           vm == ValidateMemoryType(a.type)
           c == [IdleCall EXCEPT !.op = "memorize_text", !.a = a,
                                 !.path = MemoryPath(label),
                                 !.pre = RowsOf(table, MemoryPath(label))]
       IN IF ~vt.ok THEN Fail(s, c, MemorizePrefix, vt.err)
          ELSE IF ~vm.ok THEN Fail(s, c, MemorizePrefix, vm.err)
          ELSE IF ~serverInit THEN Fail(s, c, MemorizePrefix, ChunkerNotInitialized)
          ELSE call' = [call EXCEPT ![s] =
                           [c EXCEPT !.pc = "embed", !.text = a.text, !.tags = vt.v,
                                     !.chunks = ChunkText(a.text)]]
    /\ UNCHANGED <<storeVars, serverInit, chunkOverlap, embedderVars, now, ecall>>

MemorizeEmbed(s, out) ==
    /\ call[s].pc = "embed" /\ call[s].op = "memorize_text"
    /\ out \in BatchOutcomes(call[s].chunks)
    /\ LET c == call[s]
       IN IF out # "ok" THEN Fail(s, c, MemorizePrefix, EmbedError(out))
          ELSE call' = [call EXCEPT ![s] =
                           [c EXCEPT !.pc = "list", !.emb = EmbedBatch(c.chunks, batchSize)]]
    /\ UNCHANGED <<storeVars, serverInit, chunkOverlap, embedderVars, now, ecall>>

WithinRows(s) ==
    BagCardinality(RowsOf(table, call[s].path)) + Len(call[s].chunks) <= MaxRowsPerPath

\* The check for an existing snippet: listFiles() and the look-up.  A throw
\* is caught and logged, and the insert follows.
MemorizeList(s, readFails) ==
    /\ call[s].pc = "list" /\ call[s].op = "memorize_text"
    /\ readFails \in ReadOutcomes
    /\ readFails => WithinRows(s)
    /\ LET c == call[s]
           existing == \E f \in ListFiles(table) :
                          f.filePath = c.path /\ f.chunkCount > 0
       IN IF ~readFails /\ tableOpen /\ existing
          THEN Goto(s, c, "delete")
          ELSE Goto(s, c, "insert")
    /\ UNCHANGED <<storeVars, serverInit, chunkOverlap, embedderVars, now, ecall>>

\* deleteChunks of the existing snippet, inside the same try: a throw is
\* caught and logged, and the insert follows.
MemorizeDelete(s, out) ==
    /\ call[s].pc = "delete" /\ call[s].op = "memorize_text"
    /\ out # "ok" => WithinRows(s)
    /\ DeleteChunks(call[s].path, out)
    /\ Goto(s, call[s], "insert")
    /\ UNCHANGED <<serverInit, chunkOverlap, embedderVars, now, ecall>>

\* metadata of the rows handleMemorizeText writes.
MemorizeMetadata(a, label, tags, expiresAt, timestamp) ==
    Metadata(label, Len(a.text), "text-snippet", a.language,
             IF IsGiven(a.type) THEN a.type[1] ELSE "memory", tags,
             IF a.project # Null /\ ~a.global THEN a.project ELSE Null,
             expiresAt, timestamp, timestamp)

\* calculateExpiresAt (which throws for a malformed ttl), the rows, and
\* insertChunks; a throw ends the call.
MemorizeInsert(s, fails) ==
    /\ call[s].pc = "insert" /\ call[s].op = "memorize_text"
    /\ LET c == call[s]
           ve == CalculateExpiresAt(c.a.ttl, now)
           rows == VectorChunks(c.path, c.chunks, c.emb,
                                MemorizeMetadata(c.a, c.path[2], c.tags, ve.v, now), now)
           d == [c EXCEPT !.ts = now, !.newRows = rows, !.count = Len(c.chunks)]
       IN IF ~ve.ok
          THEN ~fails /\ Fail(s, c, MemorizePrefix, ve.err) /\ UNCHANGED storeVars
          ELSE /\ InsertChunks(rows, fails)
               /\ IF ~fails THEN Added(s, d, rows)
                  ELSE Fail(s, [d EXCEPT !.insertErr = InsertFailed],
                            MemorizePrefix, InsertFailed)
    /\ UNCHANGED <<serverInit, chunkOverlap, embedderVars, now, ecall>>

MemorizeText(s, Args) ==
    \/ \E a \in Args : MemorizeStart(s, a)
    \/ \E out \in EmbedOutcomes : MemorizeEmbed(s, out)
    \/ \E readFails \in BOOLEAN : MemorizeList(s, readFails)
    \/ \E out \in DeleteOutcomes(call[s].path) : MemorizeDelete(s, out)
    \/ \E fails \in BOOLEAN : MemorizeInsert(s, fails)
    \/ \E ok \in BOOLEAN : RebuildFtsIndex(s, ok)

\* ------------------------------------------------------------- update_memory
UpdatePrefix == "Failed to update memory: "

\* A look-up that returns the rows of memory://m1 for every label.
GetFirstMemory(t, label) == RowsOf(t, MemoryPath(L1))

\* VectorStore.getMemoryByLabel(label): the rows of memory://<label>, in the
\* order of the table.
GetMemoryByLabel(t, label) == RowsOf(t, MemoryPath(label))

RECURSIVE SortedByIndex(_)
\* existingChunks.sort((a, b) => a.chunkIndex - b.chunkIndex): the ways to
\* list the rows of a bag by ascending chunkIndex (rows with the same index
\* stay in the order of the table, which is any order).
SortedByIndex(b) ==
    IF b = EmptyBag THEN {<<>>}
    ELSE LET low == {r \in DOMAIN b : \A x \in DOMAIN b : r.chunkIndex <= x.chunkIndex}
         IN UNION {{<<r>> \o rest :
                      rest \in SortedByIndex(
                          IF b[r] = 1 THEN Keep(b, LAMBDA x : x # r)
                          ELSE [b EXCEPT ![r] = b[r] - 1])} : r \in low}

\* A sort that leaves the chunks as they came.
KeepOrder(chunks) == chunks

\* existingChunks.sort((a, b) => a.chunkIndex - b.chunkIndex) of the handler:
\* ascending chunkIndex, chunks of the same index in the order they came in
\* (the sort is stable).
SortByIndex(chunks) ==
    LET n == Len(chunks)
        Before(i, j) ==
            \/ chunks[i].chunkIndex < chunks[j].chunkIndex
            \/ (chunks[i].chunkIndex = chunks[j].chunkIndex /\ i < j)
        At(k) == CHOOSE i \in 1..n : Cardinality({j \in 1..n : Before(j, i)}) = k - 1
    IN [k \in 1..n |-> chunks[At(k)]]

\* The text after the mode is applied; an empty or missing text changes nothing.
ApplyMode(fullText, a, mode) ==
    IF ~IsGiven(a.text) \/ a.text[1] = <<>> THEN fullText
    ELSE LET m == IF IsGiven(mode) THEN mode[1] ELSE "replace"
         IN CASE m = "replace" -> a.text[1]
              [] m = "append" -> fullText \o <<NL>> \o a.text[1]
              [] m = "prepend" -> a.text[1] \o <<NL>> \o fullText

RECURSIVE Dedupe(_)
\* [...new Set(tags)]: the first occurrence of every value, in order.
Dedupe(tags) ==
    IF tags = <<>> THEN <<>>
    ELSE LET init == Dedupe(SubSeq(tags, 1, Len(tags) - 1))
             last == tags[Len(tags)]
         IN IF \E i \in 1..Len(init) : init[i] = last THEN init ELSE Append(init, last)

\* The tag list update_memory stores: tags replaces the list; else addTags
\* are merged in through a Set and removeTags are filtered out.
ApplyTags(existing, tags, addTags, removeTags) ==
    IF IsGiven(tags) THEN tags[1]
    ELSE LET added == IF IsGiven(addTags) /\ Len(addTags[1]) > 0
                      THEN Dedupe(existing \o addTags[1]) ELSE existing
             Gone(t) == /\ IsGiven(removeTags)
                        /\ \E i \in 1..Len(removeTags[1]) : removeTags[1][i] = t
         IN SelectSeq(added, LAMBDA t : ~Gone(t))

RECURSIVE TextSize(_)
\* The length of the text that the rows of a bag reassemble to.
TextSize(b) ==
    IF b = EmptyBag THEN 0
    ELSE LET r == CHOOSE x \in DOMAIN b : TRUE
         IN b[r] * (Len(r.text) + 1) + TextSize(Keep(b, LAMBDA x : x # r))

\* handleUpdateMemory up to getMemoryByLabel: the four validators.
UpdateStart(s, a) ==
    /\ call[s].pc = "idle"
    /\ LET vm == ValidateUpdateMode(a.mode)
           vt == IF IsGiven(a.tags) THEN ValidateTags(a.tags) ELSE Valid(<<>>)
           va == IF IsGiven(a.addTags) THEN ValidateTags(a.addTags) ELSE Valid(<<>>)
           vr == IF IsGiven(a.removeTags) THEN ValidateTags(a.removeTags) ELSE Valid(<<>>)
           c == [IdleCall EXCEPT !.op = "update_memory", !.a = a,
                                 !.path = MemoryPath(a.label),
                                 !.pre = RowsOf(table, MemoryPath(a.label))]
       IN /\ IsGiven(a.text) /\ IsGiven(a.mode) /\ a.mode[1] \in {"append", "prepend"}
                => TextSize(c.pre) + Len(a.text[1]) <= MaxTextLen
          /\ BagCardinality(c.pre) <= MaxRowsPerPath
          /\ IF ~vm.ok THEN Fail(s, c, UpdatePrefix, vm.err)
             ELSE IF ~vt.ok THEN Fail(s, c, UpdatePrefix, vt.err)
             ELSE IF ~va.ok THEN Fail(s, c, UpdatePrefix, va.err)
             ELSE IF ~vr.ok THEN Fail(s, c, UpdatePrefix, vr.err)
             ELSE Goto(s, c, "get")
    /\ UNCHANGED <<storeVars, serverInit, chunkOverlap, embedderVars, now, ecall>>

\* metadata of the rows handleUpdateMemory writes.
UpdateMetadata(old, fullText, newTags, timestamp) ==
    Metadata(old.fileName, Len(fullText), old.fileType, old.language,
             IF old.memoryType # Null THEN old.memoryType ELSE "memory", newTags,
             old.project, old.expiresAt,
             IF old.createdAt # NoTime THEN old.createdAt ELSE timestamp, timestamp)

\* getMemoryByLabel, which returns found, the rows in the order of the
\* table (a throw ends the call, and so does an empty result), the sort,
\* the reassembled text, the mode, the tags and chunkText.
UpdateGet(s, readFails, found) ==
    /\ call[s].pc = "get"
    /\ readFails \in ReadOutcomes
    /\ found \in AnyOrders(GetMemoryByLabel(table, call[s].a.label))
    /\ LET c == call[s]
           sorted == SortByIndex(found)
           fullText == ApplyMode(JoinLines([i \in 1..Len(sorted) |-> sorted[i].text]),
                                 c.a, ValidateUpdateMode(c.a.mode).v)
       IN IF readFails
          THEN Fail(s, c, UpdatePrefix, DatabaseError("Failed to get memory by label"))
          ELSE IF Len(sorted) = 0
          THEN Fail(s, c, UpdatePrefix, PlainError(<<"Memory not found: ">>))
          ELSE call' = [call EXCEPT ![s] =
                  [c EXCEPT !.pc = "embed", !.text = fullText,
                            !.got = found, !.sortedChunks = sorted,
                            !.chunks = ChunkText(fullText),
                            !.meta = sorted[1].metadata,
                            !.tags = ApplyTags(sorted[1].metadata.tags,
                                IF IsGiven(c.a.tags) THEN Some(ValidateTags(c.a.tags).v)
                                ELSE Undefined,
                                IF IsGiven(c.a.addTags) THEN Some(ValidateTags(c.a.addTags).v)
                                ELSE Undefined,
                                IF IsGiven(c.a.removeTags)
                                THEN Some(ValidateTags(c.a.removeTags).v) ELSE Undefined)]]
    /\ UNCHANGED <<storeVars, serverInit, chunkOverlap, embedderVars, now, ecall>>

\* An update that deletes the old rows before embedBatch has returned.
UpdateEmbedAfterDelete(s, out) ==
    /\ call[s].pc = "embed" /\ call[s].op = "update_memory"
    /\ out \in BatchOutcomes(call[s].chunks)
    /\ table' = DeleteRows(table, call[s].path)
    /\ LET c == [call[s] EXCEPT !.got = <<>>, !.sortedChunks = <<>>]
       IN IF out # "ok" THEN Fail(s, c, UpdatePrefix, EmbedError(out))
          ELSE call' = [call EXCEPT ![s] =
                  [c EXCEPT !.pc = "delete", !.emb = EmbedBatch(c.chunks, batchSize), !.ts = now,
                            !.count = Len(c.chunks),
                            !.newRows = VectorChunks(c.path, c.chunks,
                                                     EmbedBatch(c.chunks, batchSize),
                                UpdateMetadata(c.meta, c.text, c.tags, now), now)]]
    /\ UNCHANGED <<tableOpen, ftsEnabled, unindexed, config, schema, serverInit, chunkOverlap,
                   embedderVars, now, ecall>>

\* embedBatch, then the timestamp and the new rows.
UpdateEmbed(s, out) ==
    /\ call[s].pc = "embed" /\ call[s].op = "update_memory"
    /\ out \in BatchOutcomes(call[s].chunks)
    /\ LET c == [call[s] EXCEPT !.got = <<>>, !.sortedChunks = <<>>]
       IN IF out # "ok" THEN Fail(s, c, UpdatePrefix, EmbedError(out))
          ELSE call' = [call EXCEPT ![s] =
                  [c EXCEPT !.pc = "delete", !.emb = EmbedBatch(c.chunks, batchSize), !.ts = now,
                            !.count = Len(c.chunks),
                            !.newRows = VectorChunks(c.path, c.chunks,
                                                     EmbedBatch(c.chunks, batchSize),
                                UpdateMetadata(c.meta, c.text, c.tags, now), now)]]
    /\ UNCHANGED <<storeVars, serverInit, chunkOverlap, embedderVars, now, ecall>>

\* deleteChunks of the old rows; a throw ends the call.
UpdateDelete(s, out) ==
    /\ call[s].pc = "delete" /\ call[s].op = "update_memory"
    /\ DeleteChunks(call[s].path, out)
    /\ LET c == call[s]
       IN IF out # "ok" THEN Fail(s, c, UpdatePrefix, DeleteError(c.path, out))
          ELSE Goto(s, c, "insert")
    /\ UNCHANGED <<serverInit, chunkOverlap, embedderVars, now, ecall>>

\* insertChunks of the new rows; a throw ends the call.
UpdateInsert(s, fails) ==
    /\ call[s].pc = "insert" /\ call[s].op = "update_memory"
    /\ LET c == call[s]
       IN /\ InsertChunks(c.newRows, fails)
          /\ IF ~fails THEN Added(s, c, c.newRows)
             ELSE Fail(s, [c EXCEPT !.insertErr = InsertFailed], UpdatePrefix, InsertFailed)
    /\ UNCHANGED <<serverInit, chunkOverlap, embedderVars, now, ecall>>

UpdateMemory(s, Args) ==
    \/ \E a \in Args : UpdateStart(s, a)
    \/ \E readFails \in BOOLEAN :
          \E found \in AnyOrders(IF call[s].op = "update_memory"
                                   THEN GetMemoryByLabel(table, call[s].a.label)
                                       ELSE EmptyBag) :
             UpdateGet(s, readFails, found)
    \/ \E out \in EmbedOutcomes : UpdateEmbed(s, out)
    \/ \E out \in DeleteOutcomes(call[s].path) : UpdateDelete(s, out)
    \/ \E fails \in BOOLEAN : UpdateInsert(s, fails)
    \/ \E ok \in BOOLEAN : RebuildFtsIndex(s, ok)

\* --------------------------------------------------------------- delete_file
DeletePrefix == "Failed to delete file: "

\* DocumentParser.validateFilePath(path): throws for a path that escapes the
\* root and for one the store's validator would reject.
OutsideBases == {"../x"}
ParserValidPath(p) == ValidFilePath(p) /\ (IsMemoryPath(p) \/ p[2] \notin OutsideBases)

\* handleDeleteFile up to deleteChunks: the parser's path validation.
DeleteStart(s, a) ==
    /\ call[s].pc = "idle"
    /\ LET c == [IdleCall EXCEPT !.op = "delete_file", !.a = a, !.path = a.filePath,
                                 !.pre = RowsOf(table, a.filePath)]
       IN IF ~ParserValidPath(a.filePath) THEN Fail(s, c, DeletePrefix, InvalidPath)
          ELSE Goto(s, c, "delete")
    /\ UNCHANGED <<storeVars, serverInit, chunkOverlap, embedderVars, now, ecall>>

\* deleteChunks(args.filePath); a throw ends the call.
DeleteFileDelete(s, out) ==
    /\ call[s].pc = "delete" /\ call[s].op = "delete_file"
    /\ DeleteChunks(call[s].path, out)
    /\ LET c == call[s]
       IN IF out # "ok" THEN Fail(s, c, DeletePrefix, DeleteError(c.path, out))
          ELSE Succeed(s, c)
    /\ UNCHANGED <<serverInit, chunkOverlap, embedderVars, now, ecall>>

DeleteFile(s, Args) ==
    \/ \E a \in Args : DeleteStart(s, a)
    \/ \E out \in DeleteOutcomes(call[s].path) : DeleteFileDelete(s, out)

\* ----------------------------------------------------------- cleanup_expired
CleanupFailed == DatabaseError("Failed to cleanup expired memories")

\* Expired, or expiring at this very instant.
IsExpiredOrDue(r, t) == r.metadata.expiresAt # NoTime /\ r.metadata.expiresAt <= t

\* metadata?.expiresAt && metadata.expiresAt < now
IsExpired(r, t) == r.metadata.expiresAt # NoTime /\ r.metadata.expiresAt < t

\* The paths cleanupExpired collects: those with a row that is expired at t.
ExpiredPaths(tbl, t) == {r.filePath : r \in {x \in DOMAIN tbl : IsExpired(x, t)}}

\* handleCleanupExpired: nothing to validate.
CleanupStart(s) ==
    /\ call[s].pc = "idle"
    /\ Goto(s, [IdleCall EXCEPT !.op = "cleanup_expired"], "scan")
    /\ UNCHANGED <<storeVars, serverInit, chunkOverlap, embedderVars, now, ecall>>

\* cleanupExpired up to its loop: 0 without a table; else the time is read,
\* the table is read and the expired paths are collected.
CleanupScan(s, readFails) ==
    /\ call[s].pc = "scan"
    /\ readFails \in ReadOutcomes
    /\ LET c == [call[s] EXCEPT !.ts = now, !.pre = table]
           expired == ExpiredPaths(table, now)
       IN IF readFails THEN Rethrow(s, c, CleanupFailed)
          ELSE IF ~tableOpen \/ expired = {} THEN Succeed(s, c)
          ELSE call' = [call EXCEPT ![s] = [c EXCEPT !.pc = "sweep", !.todo = expired]]
    /\ UNCHANGED <<storeVars, serverInit, chunkOverlap, embedderVars, now, ecall>>

\* A counter that a round of the loop leaves as it was.
SameCount(deletedCount) == deletedCount

\* deletedCount++
NextCount(deletedCount) == deletedCount + 1

\* One round of the loop: deleteChunks(p) and deletedCount++; a throw ends
\* the call with the paths deleted so far gone.
CleanupSweep(s, p, out) ==
    /\ call[s].pc = "sweep"
    /\ p \in call[s].todo
    /\ DeleteChunks(p, out)
    /\ LET c == call[s]
           d == [c EXCEPT !.todo = c.todo \ {p}, !.count = NextCount(c.count)]
       IN IF out # "ok" THEN Rethrow(s, c, CleanupFailed)
          ELSE IF d.todo = {} THEN Succeed(s, d)
          ELSE Goto(s, d, "sweep")
    /\ UNCHANGED <<serverInit, chunkOverlap, embedderVars, now, ecall>>

CleanupExpired(s) ==
    \/ CleanupStart(s)
    \/ \E readFails \in BOOLEAN : CleanupScan(s, readFails)
    \/ \E p \in call[s].todo : \E out \in DeleteOutcomes(p) : CleanupSweep(s, p, out)

\* ---------------------------------------------------------------- list_files
\* The tool's description of limit: 'Maximum entries to return (default: 50)'.
ListDefaultLimit == 50

\* The characters of the tokens that paths and names are built from.
Spell(token) ==
    CASE token = "memory://" -> <<"m", "e", "m", "o", "r", "y", ":", "/", "/">>
      [] token = "txt" -> <<"t", "x", "t">>
      [] token = "m1" -> <<"m", "1">>
      [] token = "m2" -> <<"m", "2">>
      [] token = "N1" -> <<"N", "1">>
      [] OTHER -> <<token>>

RECURSIVE SpellAll(_)
\* The characters of a name given as a tuple of tokens.
SpellAll(tokens) ==
    IF tokens = <<>> THEN <<>> ELSE Spell(Head(tokens)) \o SpellAll(Tail(tokens))

\* The characters of a filePath: 'memory://<label>' or '/<base>.<ext>'.
PathChars(p) ==
    IF IsMemoryPath(p) THEN Spell(MemoryPrefix) \o SpellAll(p[2])
    ELSE SpellAll(<<p[1], p[2], ".", p[3]>>)

\* String.prototype.toLowerCase, on the letters in use.
LowerChar(ch) ==
    CASE ch = "N" -> "n" [] ch = "M" -> "m" [] ch = "T" -> "t" [] ch = "X" -> "x"
      [] OTHER -> ch
ToLowerCase(str) == [i \in 1..Len(str) |-> LowerChar(str[i])]

\* String.prototype.includes
Includes(str, sub) ==
    \E i \in 0..(Len(str) - Len(sub)) :
        \A j \in 1..Len(sub) : str[i + j] = sub[j]

\* The rows of a path that carry its most recent timestamp: the entry of the
\* path takes its timestamp and metadata from one of them (the first that
\* the read returned).
LatestRows(t, p) ==
    {r \in DOMAIN RowsOf(t, p) : \A x \in DOMAIN RowsOf(t, p) : x.timestamp <= r.timestamp}

\* The entries that listFiles can build for a path.
EntriesOf(t, p) ==
    {[filePath |-> p, chunkCount |-> BagCardinality(RowsOf(t, p)),
      timestamp |-> r.timestamp, metadata |-> r.metadata] : r \in LatestRows(t, p)}

RECURSIVE Listings(_, _)
\* The lists (as sets) of one entry per path, for the paths given.
Listings(t, paths) ==
    IF paths = {} THEN {{}}
    ELSE LET p == CHOOSE x \in paths : TRUE
         IN UNION {{{e} \cup rest : rest \in Listings(t, paths \ {p})} : e \in EntriesOf(t, p)}

\* A filter that asks for one of the requested tags only.
HasSomeTag(entry, tags) ==
    \E i \in 1..Len(tags) : \E j \in 1..Len(entry.metadata.tags) :
        entry.metadata.tags[j] = tags[i]

\* filters.tags.every((tag) => r.metadata?.tags?.includes(tag))
HasAllTags(entry, tags) ==
    \A i \in 1..Len(tags) : \E j \in 1..Len(entry.metadata.tags) :
        entry.metadata.tags[j] = tags[i]

\* The filters of listFiles other than limit, on one entry: each applies
\* only when it was given a truthy value.
PassesListFilters(entry, f) ==
    /\ (IsGiven(f.type) /\ f.type[1] = "memory") => IsMemoryPath(entry.filePath)
    /\ (IsGiven(f.type) /\ f.type[1] = "file") => ~IsMemoryPath(entry.filePath)
    /\ (IsGiven(f.tags) /\ Len(f.tags[1]) > 0) => HasAllTags(entry, f.tags[1])
    /\ (IsGiven(f.project) /\ f.project[1] # "") => entry.metadata.project = f.project[1]
    /\ (IsGiven(f.search) /\ f.search[1] # <<>>) =>
          \/ Includes(ToLowerCase(PathChars(entry.filePath)), ToLowerCase(f.search[1]))
          \/ Includes(ToLowerCase(SpellAll(entry.metadata.fileName)),
                      ToLowerCase(f.search[1]))

RECURSIVE KSubsets(_, _)
\* The subsets of k elements of a set.
KSubsets(S, k) ==
    IF k = 0 THEN {{}}
    ELSE IF Cardinality(S) < k THEN {}
    ELSE IF Cardinality(S) = k THEN {S}
    ELSE LET x == CHOOSE y \in S : TRUE
         IN {T \cup {x} : T \in KSubsets(S \ {x}, k - 1)} \cup KSubsets(S \ {x}, k)

\* results.slice(0, filters.limit) when limit is given and positive: the
\* first limit entries in the order of the read, which is any order.
ApplyListLimit(entries, f) ==
    IF IsGiven(f.limit) /\ f.limit[1] > 0
    THEN KSubsets(entries, Min(f.limit[1], Cardinality(entries)))
    ELSE {entries}

\* What listFiles(filters) can return for table t.
ListFilesFiltered(t, f) ==
    UNION {ApplyListLimit({e \in all : PassesListFilters(e, f)}, f) :
              all \in Listings(t, PathsOf(t))}

\* list_files arguments: every field optional.
ListArg(type, tags, project, search, limit) ==
    [type |-> type, tags |-> tags, project |-> project, search |-> search, limit |-> limit]
NoFilter == ListArg(Undefined, Undefined, Undefined, Undefined, Undefined)

\* handleListFiles up to listFiles: the truthy arguments become the filters.
ListStart(s, a) ==
    /\ call[s].pc = "idle"
    /\ Goto(s, [IdleCall EXCEPT !.op = "list_files", !.a = a], "read")
    /\ UNCHANGED <<storeVars, serverInit, chunkOverlap, embedderVars, now, ecall>>

\* A search result: the row without its id, vector and timestamp.
ToSearchResult(r) ==
    [filePath |-> r.filePath, chunkIndex |-> r.chunkIndex, text |-> r.text,
     metadata |-> r.metadata]

\* listFiles(): [] without a table; else one read of the table (a throw is
\* rethrown as it is), the entries, the filters and the limit.  first and
\* obs keep the rows that this read returned.
ListRead(s, readFails) ==
    /\ call[s].pc = "read"
    /\ readFails \in ReadOutcomes
    /\ LET c == call[s]
           rows == MapBag(table, ToSearchResult)
       IN IF readFails THEN Rethrow(s, c, DatabaseError("Failed to list files"))
          ELSE \E result \in (IF tableOpen THEN ListFilesFiltered(table, c.a) ELSE {{}}) :
                  Succeed(s, [c EXCEPT !.first = rows, !.last = rows, !.obs = rows,
                                       !.files = result, !.pre = table])
    /\ UNCHANGED <<storeVars, serverInit, chunkOverlap, embedderVars, now, ecall>>

ListFilesCall(s, Args) ==
    \/ \E a \in Args : ListStart(s, a)
    \/ \E readFails \in BOOLEAN : ListRead(s, readFails)

\* ------------------------------------------------------------------- status
\* handleStatus up to the read of getStatus: without a table the report is
\* returned at once.
StatusStart(s) ==
    /\ call[s].pc = "idle"
    /\ LET c == [IdleCall EXCEPT !.op = "status"]
       IN IF ~tableOpen
          THEN Succeed(s, [c EXCEPT !.report = [documentCount |-> 0, chunkCount |-> 0,
                                                ftsIndexEnabled |-> FALSE,
                                                searchMode |-> "vector-only"]])
          ELSE Goto(s, c, "sread")
    /\ UNCHANGED <<storeVars, serverInit, chunkOverlap, embedderVars, now, ecall>>

\* getStatus: the read of all records and the report.
StatusRead(s, readFails) ==
    /\ call[s].pc = "sread"
    /\ LET c == call[s]
       IN IF readFails THEN Rethrow(s, c, DatabaseError("Failed to get status"))
          ELSE Succeed(s, [c EXCEPT !.report =
                              [documentCount |-> Cardinality(PathsOf(table)),
                               chunkCount |-> BagCardinality(table),
                               ftsIndexEnabled |-> ftsEnabled,
                               searchMode |-> IF ftsEnabled THEN "hybrid"
                                              ELSE "vector-only"]])
    /\ UNCHANGED <<storeVars, serverInit, chunkOverlap, embedderVars, now, ecall>>

StatusCall(s) ==
    \/ StatusStart(s)
    \/ \E readFails \in BOOLEAN : StatusRead(s, readFails)

\* ----------------------------------------------------------- query_documents
SearchFailed == DatabaseError("Failed to search vectors")
InvalidLimit == DatabaseError("Invalid limit: expected 1-20")

\* A full-text query matches a row when a word of the query is in its text.
FtsMatches(text, query) ==
    \E i \in 1..Len(text) : \E j \in 1..Len(query) :
        text[i] = query[j] /\ text[i] \notin {NL, Space}

\* table.search(queryText, 'fts', 'text').limit(k): the k best matches of
\* the rows that the index covers (the rows in stale are not covered yet);
\* how the matches rank is the engine's business: any k of them.
FtsSearch(t, stale, query, k) ==
    LET hits == Keep(t (-) stale, LAMBDA r : FtsMatches(r.text, query))
    IN KSubBags(hits, Min(k, BagCardinality(hits)))

\* `${filePath}:${chunkIndex}`
KeyOf(r) == <<r.filePath, r.chunkIndex>>

\* Scores are whole numbers of 1/den: den is ScoreUnit for the distances of
\* a vector search and HybridUnit * (number of FTS results) after a rerank.
\* minScore and maxDistance are given in 1/ScoreUnit.
ScoreUnit == 100
DOT_PRODUCT_MAX_DISTANCE == 2 * ScoreUnit

\* The dot distance 1 - q.v of normalized vectors, in 1/ScoreUnit.  A stored
\* vector <<"at", d>> is a vector at distance d of the query; the zero
\* vector is at distance 1 of every vector; the vectors of two different
\* texts are taken to be halfway.
DotDistance(q, v) ==
    IF v[1] = "at" THEN v[2]
    ELSE IF q = ZeroVector \/ v = ZeroVector THEN ScoreUnit
    ELSE IF q = v THEN 0
    ELSE ScoreUnit \div 2

\* toSearchResultWithMetadata: the row without its id, vector and timestamp,
\* with score = _distance.
Scored(r, score) ==
    [filePath |-> r.filePath, chunkIndex |-> r.chunkIndex, text |-> r.text,
     metadata |-> r.metadata, score |-> score]

RECURSIVE AscendingOrders(_)
\* The orders of the results of a bag by ascending score.
AscendingOrders(b) ==
    IF b = EmptyBag THEN {<<>>}
    ELSE UNION {{<<r>> \o rest : rest \in AscendingOrders(b (-) SetToBag({r}))} :
                  r \in {x \in DOMAIN b : \A y \in DOMAIN b : x.score <= y.score}}

\* table.vectorSearch(q).distanceType('dot').limit(k), with
\* distanceRange(undefined, maxDistance) when maxDistance is configured (its
\* upper bound is exclusive): the k nearest rows, in ascending distance.
NearestRows(t, q, k, maxDistance) ==
    LET near == Keep(t, LAMBDA r : IsGiven(maxDistance) => DotDistance(q, r.vector) < maxDistance[1])
        picks == {b \in KSubBags(near, Min(k, BagCardinality(near))) :
                     \A x \in DOMAIN b : \A y \in DOMAIN (near (-) b) :
                        DotDistance(q, x.vector) <= DotDistance(q, y.vector)}
    IN UNION {AscendingOrders(MapBag(b, LAMBDA r : Scored(r, DotDistance(q, r.vector)))) :
                 b \in picks}

\* bm25Weight = hybridWeight ?? 0.6 and vectorWeight = 1 - bm25Weight, in
\* 1/HybridUnit: 300 and 200 of 500.
HybridUnit == 5 * ScoreUnit
Bm25Weight == 3 * ScoreUnit
VectorWeight == HybridUnit - Bm25Weight

\* hybridRerank(ftsResults, vectorResults, limit), scores in
\* 1/(HybridUnit * L) with L the number of FTS results.  A key keeps the
\* last vector result that has it, else the first FTS result; its score is
\* vectorWeight * max(0, 1 - distance / 2), plus bm25Weight * (1 - i / L) for
\* each FTS result of rank i that has the key; the limit best by score
\* (equal scores in the order in which the Map got their keys) are returned
\* with _distance = 1 - score.
HybridRerank(ftsResults, vectorResults, limit) ==
    LET L == IF Len(ftsResults) = 0 THEN 1 ELSE Len(ftsResults)
        vkeys == {KeyOf(vectorResults[i]) : i \in 1..Len(vectorResults)}
        fkeys == {KeyOf(ftsResults[i]) : i \in 1..Len(ftsResults)}
        Last(k) == CHOOSE i \in 1..Len(vectorResults) :
                      /\ KeyOf(vectorResults[i]) = k
                      /\ \A j \in (i + 1)..Len(vectorResults) : KeyOf(vectorResults[j]) # k
        First(k) == CHOOSE i \in 1..Len(ftsResults) :
                      /\ KeyOf(ftsResults[i]) = k
                      /\ \A j \in 1..(i - 1) : KeyOf(ftsResults[j]) # k
        VectorScore(k) ==
            IF k \in vkeys
            THEN LET d == vectorResults[Last(k)].score
                     left == DOT_PRODUCT_MAX_DISTANCE - d
                 IN IF left < 0 THEN 0
                    ELSE (VectorWeight * left * L) \div DOT_PRODUCT_MAX_DISTANCE
            ELSE 0
        RECURSIVE FtsScore(_, _)
        FtsScore(k, i) ==
            IF i > Len(ftsResults) THEN 0
            ELSE (IF KeyOf(ftsResults[i]) = k THEN Bm25Weight * (L - (i - 1)) ELSE 0)
                 + FtsScore(k, i + 1)
        Result(k) == IF k \in vkeys THEN vectorResults[Last(k)] ELSE ftsResults[First(k)]
        keys == vkeys \cup fkeys
        Score(k) == VectorScore(k) + FtsScore(k, 1)
        \* the Map keeps its keys in the order of their first set
        Position(k) ==
            IF k \in vkeys
            THEN CHOOSE i \in 1..Len(vectorResults) :
                    /\ KeyOf(vectorResults[i]) = k
                    /\ \A j \in 1..(i - 1) : KeyOf(vectorResults[j]) # k
            ELSE Len(vectorResults) + First(k)
        \* the sort is stable
        Before(a, b) ==
            Score(a) > Score(b) \/ (Score(a) = Score(b) /\ Position(a) < Position(b))
        At(i) == CHOOSE k \in keys : Cardinality({a \in keys : Before(a, k)}) = i - 1
        sorted == [i \in 1..Cardinality(keys) |->
                      Scored(Result(At(i)), HybridUnit * L - Score(At(i)))]
    IN {SubSeq(sorted, 1, Min(limit, Len(sorted)))}

\* The sum of a sequence of numbers.
RECURSIVE Sum(_)
Sum(seq) == IF seq = <<>> THEN 0 ELSE Head(seq) + Sum(Tail(seq))

\* GROUPING_BOUNDARY_STD_MULTIPLIER = 1.5, as 3 / 2.
GroupingMultiplierNum == 3
GroupingMultiplierDen == 2

\* The gap after position i is a boundary when gap > mean + 1.5 * std over
\* all the gaps (population std).  With m gaps of sum S this is
\* m * gap - S > 1.5 * sqrt(Q / m), Q the sum of the squares (m * g - S)^2.
Boundaries(results) ==
    LET m == Len(results) - 1
        gap == [i \in 1..m |-> results[i + 1].score - results[i].score]
        S == Sum(gap)
        Q == Sum([i \in 1..m |-> (m * gap[i] - S) * (m * gap[i] - S)])
    IN {i \in 1..m :
           /\ m * gap[i] - S > 0
           /\ GroupingMultiplierDen * GroupingMultiplierDen * m
                 * (m * gap[i] - S) * (m * gap[i] - S)
              > GroupingMultiplierNum * GroupingMultiplierNum * Q}

\* A grouping that cuts at the first boundary in either mode.
ApplyGroupingFirst(results, mode) ==
    IF Len(results) <= 1 \/ Boundaries(results) = {} THEN results
    ELSE SubSeq(results, 1, CHOOSE i \in Boundaries(results) :
                               \A j \in Boundaries(results) : i <= j)

\* A grouping that returns what follows the cut instead of what precedes it.
ApplyGroupingAfter(results, mode) ==
    IF Len(results) <= 1 \/ Boundaries(results) = {} THEN results
    ELSE SubSeq(results, 1 + (CHOOSE i \in Boundaries(results) :
                                 \A j \in Boundaries(results) : i <= j), Len(results))

\* applyGrouping(results, mode): 'similar' cuts at the first boundary,
\* 'related' at the second one and returns everything when there is only
\* one; no boundary or at most one result returns everything.
ApplyGrouping(results, mode) ==
    IF Len(results) <= 1 THEN results
    ELSE LET bs == Boundaries(results)
             first == CHOOSE i \in bs : \A j \in bs : i <= j
             second == CHOOSE i \in bs \ {first} : \A j \in bs \ {first} : i <= j
         IN IF bs = {} THEN results
            ELSE IF mode = "similar" THEN SubSeq(results, 1, first)
            ELSE IF Cardinality(bs) < 2 THEN results
            ELSE SubSeq(results, 1, second)

\* A threshold that every score passes.
WithinAny(score, den, bound) == TRUE

\* result.score <= bound, for a score in 1/den and a bound in 1/ScoreUnit.
Within(score, den, bound) == score * ScoreUnit <= bound * den

\* The rest of search after the reads: the maxDistance filter, the metadata
\* filters of the options (each one only when it is set), the grouping, and
\* the first limit results.  o is the searchOptions of the handler.
SearchFinish(results, den, o, limit) ==
    LET Near(r) == IsGiven(config.maxDistance) =>
                      Within(r.score, den, config.maxDistance[1])
        Type(r) == /\ (IsGiven(o.type) /\ o.type[1] = "memory") => IsMemoryPath(r.filePath)
                   /\ (IsGiven(o.type) /\ o.type[1] = "file") => ~IsMemoryPath(r.filePath)
        Tags(r) == IsGiven(o.tags) =>
                      \A i \in 1..Len(o.tags[1]) : \E j \in 1..Len(r.metadata.tags) :
                          r.metadata.tags[j] = o.tags[1][i]
        Project(r) == IsGiven(o.project) => r.metadata.project = o.project[1]
        MinScore(r) == IsGiven(o.minScore) => Within(r.score, den, o.minScore[1])
        kept == SelectSeq(results,
                    LAMBDA r : Near(r) /\ Type(r) /\ Tags(r) /\ Project(r) /\ MinScore(r))
        grouped == IF IsGiven(config.grouping) /\ Len(kept) > 1
                   THEN ApplyGrouping(kept, config.grouping[1]) ELSE kept
    IN SubSeq(grouped, 1, Min(limit, Len(grouped)))

VALID_TYPE_FILTERS == {"all", "file", "memory"}
\* validateTypeFilter: undefined stays undefined; a value outside the list throws.
ValidateTypeFilter(type) ==
    IF ~IsGiven(type) THEN Valid(Undefined)
    ELSE IF type[1] \notin VALID_TYPE_FILTERS THEN Invalid("Invalid type filter")
    ELSE Valid(type)

\* validateMinScore: undefined stays undefined; a negative value and a value
\* above 2 throw.
ValidateMinScore(minScore) ==
    IF ~IsGiven(minScore) THEN Valid(Undefined)
    ELSE IF minScore[1] < 0 THEN Invalid("minScore cannot be negative")
    ELSE IF minScore[1] > 2 * ScoreUnit THEN Invalid("minScore must be <= 2")
    ELSE Valid(minScore)

\* The searchOptions that handleQueryDocuments builds from its arguments.
SearchOptions(a) ==
    [type |-> ValidateTypeFilter(a.type).v,
     tags |-> IF Len(ValidateTags(a.tags).v) > 0 THEN Some(ValidateTags(a.tags).v)
              ELSE Undefined,
     project |-> IF IsGiven(a.project) /\ a.project[1] # "" THEN a.project ELSE Undefined,
     minScore |-> ValidateMinScore(a.minScore).v]

\* handleQueryDocuments up to embed: the validators.
QueryStart(s, a) ==
    /\ call[s].pc = "idle"
    /\ LET c == [IdleCall EXCEPT !.op = "query_documents", !.a = a, !.text = a.query]
           vy == ValidateTypeFilter(a.type)
           vt == ValidateTags(a.tags)
           vm == ValidateMinScore(a.minScore)
       IN IF ~vy.ok THEN Rethrow(s, c, vy.err)
          ELSE IF ~vt.ok THEN Rethrow(s, c, vt.err)
          ELSE IF ~vm.ok THEN Rethrow(s, c, vm.err)
          ELSE Goto(s, c, "qembed")
    /\ UNCHANGED <<storeVars, serverInit, chunkOverlap, embedderVars, now, ecall>>

\* A search that takes the hybrid path whatever ftsEnabled says.
UseHybridAlways(queryText) == Len(Trim(queryText)) > 0

\* search: the hybrid path is taken when FTS is enabled and the query text
\* is not blank (hybridWeight has its default, 0.6).
UseHybrid(queryText) == ftsEnabled /\ Len(Trim(queryText)) > 0

\* embedder.embed(query), then search up to its first await: [] without a
\* table, the limit check, and the choice of the hybrid or the dense path.
QueryEmbed(s, out) ==
    /\ call[s].pc = "qembed"
    /\ out \in EmbedOutcomes
    /\ LET c == call[s]
           limit == IF IsGiven(c.a.limit) /\ c.a.limit[1] # 0 THEN c.a.limit[1]
                    ELSE DefaultLimit
           d == [c EXCEPT !.count = limit, !.emb = <<EmbedText(c.text)>>]
       IN IF out = "uninitialized" THEN Rethrow(s, c, NotInitialized)
          ELSE IF out # "ok"
          THEN Rethrow(s, c, EmbeddingError("Failed to generate embedding: "))
          ELSE IF ~tableOpen THEN Succeed(s, d)
          ELSE IF limit < 1 \/ limit > MaxLimit THEN Rethrow(s, d, InvalidLimit)
          ELSE IF UseHybrid(c.text) THEN Goto(s, d, "fts")
          ELSE Goto(s, d, "dense")
    /\ UNCHANGED <<storeVars, serverInit, chunkOverlap, embedderVars, now, ecall>>

\* The hybrid path's first read, the full-text search, whose results come in
\* the order of their rank.  A throw turns ftsEnabled off and falls back to
\* the dense query.
QueryFts(s, fails) ==
    /\ call[s].pc = "fts"
    /\ LET c == call[s]
       IN IF fails
          THEN Goto(s, c, "dense") /\ ftsEnabled' = FALSE /\ unindexed' = EmptyBag
          ELSE /\ \E hits \in FtsSearch(table, unindexed, c.text,
                                          c.count * HybridCandidateMultiplier * 2) :
                  \E ranked \in AnyOrders(hits) :
                     Goto(s, [c EXCEPT !.first = MapBag(RowsOf(table, F1), ToSearchResult),
                                       !.fts = [i \in 1..Len(ranked) |-> Scored(ranked[i], 0)],
                                       !.stale = {KeyOf(r) : r \in DOMAIN unindexed}],
                          "vector")
               /\ UNCHANGED <<ftsEnabled, unindexed>>
    /\ UNCHANGED <<table, tableOpen, config, schema, serverInit, chunkOverlap, embedderVars, now, ecall>>

\* The end of a search: the results and their bag without the scores.
Found(c, results, den) ==
    [c EXCEPT !.results = results, !.den = den,
              !.obs = MapBag(BagOfSeq(results), ToSearchResult)]

\* The hybrid path's second read, the vector search, and the rerank.  A
\* throw turns ftsEnabled off and falls back to the dense query.
QueryVector(s, fails) ==
    /\ call[s].pc = "vector"
    /\ LET c == call[s]
           k == c.count * HybridCandidateMultiplier * 2
           den == HybridUnit * (IF Len(c.fts) = 0 THEN 1 ELSE Len(c.fts))
       IN IF fails
          THEN Goto(s, c, "dense") /\ ftsEnabled' = FALSE /\ unindexed' = EmptyBag
          ELSE /\ \E hits \in NearestRows(table, c.emb[1], k, Undefined) :
                  \E merged \in HybridRerank(c.fts, hits, k) :
                     Succeed(s, [Found(c, SearchFinish(merged, den, SearchOptions(c.a), c.count),
                                       den)
                                   EXCEPT !.last = MapBag(RowsOf(table, F1), ToSearchResult),
                                          !.dense = hits, !.fused = merged])
               /\ UNCHANGED <<ftsEnabled, unindexed>>
    /\ UNCHANGED <<table, tableOpen, config, schema, serverInit, chunkOverlap, embedderVars, now, ecall>>

\* The dense query: limit * 3 candidates.  A throw ends the call with
\* DatabaseError.
QueryDense(s, fails) ==
    /\ call[s].pc = "dense"
    /\ LET c == call[s]
           rows == MapBag(RowsOf(table, F1), ToSearchResult)
       IN IF fails THEN Rethrow(s, c, SearchFailed)
          ELSE \E hits \in NearestRows(table, c.emb[1], c.count * VectorOverFetch,
                                       config.maxDistance) :
                  Succeed(s, [Found(c, SearchFinish(hits, ScoreUnit, SearchOptions(c.a),
                                                    c.count), ScoreUnit)
                                EXCEPT !.first = rows, !.last = rows])
    /\ UNCHANGED <<storeVars, serverInit, chunkOverlap, embedderVars, now, ecall>>

QueryDocuments(s, Args) ==
    \/ \E a \in Args : QueryStart(s, a)
    \/ \E out \in EmbedOutcomes : QueryEmbed(s, out)
    \/ \E fails \in BOOLEAN : QueryFts(s, fails)
    \/ \E fails \in BOOLEAN : QueryVector(s, fails)
    \/ \E fails \in BOOLEAN : QueryDense(s, fails)

\* ------------------------------------------------------------------ Embedder
\* Embedder.embed(text) up to its await: a throw without a model, the zero
\* vector at once for the empty text, else the model is called.
EmbedStart(c, text) ==
    /\ ecall[c].pc = "idle"
    /\ LET e == [IdleCaller EXCEPT !.kind = "embed", !.texts = <<text>>,
                                   !.sawModel = embModel,
                                   !.afterFailure = (~embModel /\ loads > 0 /\ initCalls = 0)]
       IN ecall' = [ecall EXCEPT ![c] =
             IF ~embModel THEN [e EXCEPT !.pc = "done", !.err = NotInitialized]
             ELSE IF Len(text) = 0 THEN [e EXCEPT !.pc = "done", !.vectors = <<ZeroVector>>]
             ELSE [e EXCEPT !.pc = "infer"]]
    /\ UNCHANGED <<storeVars, serverInit, chunkOverlap, embedderVars, now, call>>

\* Embedder.embedBatch(texts) up to its await: a throw without a model, []
\* at once for no texts, else every text of the batch goes to embed.
EmbedBatchStart(c, texts) ==
    /\ ecall[c].pc = "idle"
    /\ LET e == [IdleCaller EXCEPT !.kind = "embedBatch", !.texts = texts,
                                   !.sawModel = embModel,
                                   !.afterFailure = (~embModel /\ loads > 0 /\ initCalls = 0)]
       IN ecall' = [ecall EXCEPT ![c] =
             IF ~embModel THEN [e EXCEPT !.pc = "done", !.err = NotInitialized]
             ELSE IF Len(texts) = 0 THEN [e EXCEPT !.pc = "done"]
             ELSE [e EXCEPT !.pc = "infer"]]
    /\ UNCHANGED <<storeVars, serverInit, chunkOverlap, embedderVars, now, call>>

\* The model answers: one vector per text in the order of the texts, or a
\* throw that is rethrown as EmbeddingError.
EmbedFinish(c, ok) ==
    /\ ecall[c].pc = "infer"
    /\ LET e == ecall[c]
       IN ecall' = [ecall EXCEPT ![c] =
             IF ok THEN [e EXCEPT !.pc = "done",
                                   !.vectors = IF e.kind = "embed" THEN <<EmbedText(e.texts[1])>>
                                               ELSE EmbedBatch(e.texts, batchSize)]
             ELSE [e EXCEPT !.pc = "done",
                            !.err = IF e.kind = "embed"
                                    THEN EmbeddingError("Failed to generate embedding: ")
                                    ELSE BatchFailed]]
    /\ UNCHANGED <<storeVars, serverInit, chunkOverlap, embedderVars, now, call>>

\* The caller has its answer.
EmbedReturn(c) ==
    /\ ecall[c].pc = "done"
    /\ ecall' = [ecall EXCEPT ![c] = IdleCaller]
    /\ UNCHANGED <<storeVars, serverInit, chunkOverlap, embedderVars, now, call>>

\* ------------------------------------------------------------ specifications
IngestArgs ==
    {[filePath |-> F1, tags |-> tags, project |-> Null, global |-> FALSE] :
        tags \in {Undefined, Some(<<TagXPadded, TagXPadded>>)}}

MemorizeArgs ==
    {[text |-> t, label |-> Some(L1), language |-> Null, tags |-> Undefined,
      type |-> Undefined, ttl |-> ttl, project |-> Null, global |-> FALSE] :
        t \in InputTexts, ttl \in {Undefined, Some(Duration(0, "d")), Some(BadTtl)}}

UpdateArgs ==
    {[label |-> L1, mode |-> m, text |-> Some(TextB), tags |-> Undefined,
      addTags |-> Undefined, removeTags |-> Undefined] :
        m \in {Undefined, Some("append")}}

Environment ==
    \/ Tick
    \/ ServerInitialize
    \/ InitializeStart
    \/ \E ok \in BOOLEAN : InitializeFinish(ok)

\* One client that ingests and deletes a file, one call at a time.
NextFile ==
    \/ Environment
    \/ IngestFile(1, IngestArgs)
    \/ DeleteFile(1, {[filePath |-> F1]})
    \/ Return(1)

SpecFile == Init /\ [][NextFile]_vars

\* One client that works on a memory, one call at a time.
NextMemory ==
    \/ Environment
    \/ MemorizeText(1, MemorizeArgs)
    \/ UpdateMemory(1, UpdateArgs)
    \/ DeleteFile(1, {[filePath |-> MemoryPath(L1)]})
    \/ CleanupExpired(1)
    \/ Return(1)

SpecMemory == Init /\ [][NextMemory]_vars

\* One client that stores, deletes and sweeps a memory, one call at a time.
NextCleanup ==
    \/ Environment
    \/ MemorizeText(1, MemorizeArgs)
    \/ DeleteFile(1, {[filePath |-> MemoryPath(L1)]})
    \/ CleanupExpired(1)
    \/ Return(1)

SpecCleanup == Init /\ [][NextCleanup]_vars

MemorizeTagArgs ==
    {[text |-> TextA, label |-> Some(L1), language |-> Null, tags |-> tags,
      type |-> Undefined, ttl |-> Undefined, project |-> Null, global |-> FALSE] :
        tags \in {Some(<<TagX, TagY>>), Some(<<TagXPadded, TagX>>),
                  Some(<<TagX, <<Space>>>>)}}

\* update_memory arguments that change the tags only.
UpdateTagArg(tags, addTags, removeTags) ==
    [label |-> L1, mode |-> Undefined, text |-> Undefined, tags |-> tags,
     addTags |-> addTags, removeTags |-> removeTags]

UpdateTagArgs ==
    {UpdateTagArg(Some(<<TagY>>), Some(<<TagZ>>), Some(<<TagY>>)),
     UpdateTagArg(Some(<<>>), Undefined, Undefined),
     UpdateTagArg(Undefined, Some(<<TagXPadded, TagZ>>), Undefined),
     UpdateTagArg(Undefined, Undefined, Some(<<TagX>>)),
     UpdateTagArg(Undefined, Undefined, Some(<<TagZ>>)),
     UpdateTagArg(Undefined, Some(<<TagZ>>), Some(<<TagX>>)),
     [UpdateTagArg(Undefined, Some(<<TagZ>>), Undefined) EXCEPT !.label = L2]}

\* One client that stores a memory with tags and changes its tags.
NextTags ==
    \/ ServerInitialize
    \/ InitializeStart
    \/ \E ok \in BOOLEAN : InitializeFinish(ok)
    \/ MemorizeText(1, MemorizeTagArgs)
    \/ UpdateMemory(1, UpdateTagArgs)
    \/ Return(1)

SpecTags == Init /\ [][NextTags]_vars

UpdateModeArgs ==
    {[label |-> L1, mode |-> m, text |-> t, tags |-> Undefined,
      addTags |-> Undefined, removeTags |-> Undefined] :
        m \in {Undefined, Some("replace"), Some("append"), Some("prepend")},
        t \in {Undefined, Some(<<>>), Some(TextB)}}

\* One client that stores a memory and changes its text.
NextModes ==
    \/ ServerInitialize
    \/ InitializeStart
    \/ \E ok \in BOOLEAN : InitializeFinish(ok)
    \/ MemorizeText(1, {a \in MemorizeArgs : ~IsGiven(a.ttl)})
    \/ UpdateMemory(1, UpdateModeArgs)
    \/ Return(1)

SpecModes == Init /\ [][NextModes]_vars

\* query_documents arguments: every field but query optional.
QueryArg(query, limit, type, tags, project, minScore) ==
    [query |-> query, limit |-> limit, type |-> type, tags |-> tags,
     project |-> project, minScore |-> minScore]

QueryArgs ==
    {QueryArg(q, limit, Undefined, Undefined, Undefined, Undefined) :
        q \in {TextA, TextB}, limit \in {Undefined, Some(0), Some(1), Some(MaxLimit + 1)}}

ConcMemorizeArgs(text) ==
    {[text |-> text, label |-> Some(L1), language |-> Null, tags |-> Undefined,
      type |-> Undefined, ttl |-> Undefined, project |-> Null, global |-> FALSE]}

\* Two clients that write the same memory, their calls overlapping.
NextConc ==
    \/ ServerInitialize
    \/ InitializeStart
    \/ \E ok \in BOOLEAN : InitializeFinish(ok)
    \/ MemorizeText(1, ConcMemorizeArgs(TextA))
    \/ MemorizeText(2, ConcMemorizeArgs(TextAB))
    \/ UpdateMemory(2, {u \in UpdateArgs : ~IsGiven(u.mode)})
    \/ \E s \in Slots : Return(s)

SpecConc == Init /\ [][NextConc]_vars

\* Two clients: one ingests the file while the other lists and searches.
NextRead ==
    \/ ServerInitialize
    \/ InitializeStart
    \/ \E ok \in BOOLEAN : InitializeFinish(ok)
    \/ IngestFile(1, {a \in IngestArgs : ~IsGiven(a.tags)})
    \/ ListFilesCall(2, {NoFilter})
    \/ QueryDocuments(2, QueryArgs)
    \/ \E s \in Slots : Return(s)

SpecRead == Init /\ [][NextRead]_vars

\* Clients of the Embedder alone: embed, embedBatch and initialize.
NextEmbed ==
    \/ InitializeStart
    \/ \E ok \in BOOLEAN : InitializeFinish(ok)
    \/ \E c \in Callers : \E text \in {<<>>, TextA} : EmbedStart(c, text)
    \/ \E c \in Callers : \E texts \in {<<>>, <<TextA, TextB>>} : EmbedBatchStart(c, texts)
    \/ \E c \in Callers : \E ok \in BOOLEAN : EmbedFinish(c, ok)
    \/ \E c \in Callers : EmbedReturn(c)

SpecEmbed == Init /\ [][NextEmbed]_vars

TtlArgs ==
    {[text |-> TextA, label |-> Some(L1), language |-> Null, tags |-> Undefined,
      type |-> Undefined, ttl |-> ttl, project |-> Null, global |-> FALSE] :
        ttl \in {Some(BadTtl), Some(Duration(30, "d")), Some(Duration(48, "h")),
                 Some(Duration(1, "m")), Some(Duration(13, "m")), Some(Duration(1, "y"))}}

\* One client memorizes with a ttl on January 31 and on the days after it.
NextTtl ==
    \/ Environment
    \/ MemorizeText(1, TtlArgs)
    \/ Return(1)

SpecTtl == Init /\ [][NextTtl]_vars

\* A store that was opened and filled before: the rows that memorize_text
\* and ingest_file leave, and a server that is initialized.
InitStored(tables, configs) ==
    /\ table \in tables
    /\ tableOpen = TRUE
    /\ ftsEnabled \in BOOLEAN
    /\ unindexed = EmptyBag
    /\ config \in configs
    /\ schema = "current"
    /\ serverInit = TRUE
    /\ chunkOverlap = 0
    /\ embModel = TRUE
    /\ loads = 1
    /\ initCalls = 1
    /\ batchSize = DefaultBatchSize
    /\ now = 0
    /\ call = [s \in Slots |-> IdleCall]
    /\ ecall = [c \in Callers |-> IdleCaller]

\* The rows of memorize_text for a label, at time 0.
MemoryRows(label, text, tags, project) ==
    LET a == [text |-> text, label |-> Some(label), language |-> Null,
              tags |-> Some(tags), type |-> Undefined, ttl |-> Undefined,
              project |-> project, global |-> FALSE]
    IN VectorChunks(MemoryPath(label), SplitText(text, 0), EmbedTexts(SplitText(text, 0)),
                    MemorizeMetadata(a, label, tags, NoTime, 0), 0)

\* The rows of ingest_file for a path, at time 0.
FileRows(filePath, text, tags, project) ==
    LET a == [filePath |-> filePath, tags |-> Some(tags), project |-> project,
              global |-> FALSE]
    IN VectorChunks(filePath, SplitText(text, 0), EmbedTexts(SplitText(text, 0)),
                    IngestMetadata(a, text, Null, 0), 0)

RECURSIVE ManyMemories(_)
\* n memories of one chunk each, under the labels s1 .. sn.
ManyMemories(n) ==
    IF n = 0 THEN EmptyBag
    ELSE ManyMemories(n - 1) (+) MemoryRows(<<"s", n>>, TextA, <<>>, Null)

ListLimitArgs ==
    {ListArg(Undefined, Undefined, Undefined, Undefined, limit) :
        limit \in {Undefined, Some(0), Some(1), Some(ListDefaultLimit)}}

\* list_files with a limit, over stores of up to one source more than the
\* documented default.
NextLimit ==
    \/ ListFilesCall(1, ListLimitArgs)
    \/ Return(1)

SpecLimit ==
    /\ InitStored({ManyMemories(n) : n \in {0, 2, ListDefaultLimit, ListDefaultLimit + 1}},
                  {DefaultConfig})
    /\ [][NextLimit]_vars

L3 == <<"N1">>
Project1 == "p1"

\* Stores of a file and two memories that differ in type, tags, project and
\* name.
FilterTables ==
    {f (+) m1 (+) m3 :
        f \in {EmptyBag, FileRows(F1, TextAB, <<TagX>>, Project1)},
        m1 \in {EmptyBag, MemoryRows(L1, TextA, <<TagX, TagY>>, Null)},
        m3 \in {EmptyBag, MemoryRows(L3, TextA, <<>>, Project1)}}

ListFilterArgs ==
    {ListArg(type, tags, project, search, Undefined) :
        type \in {Undefined, Some("memory"), Some("file"), Some("all")},
        tags \in {Undefined, Some(<<>>), Some(<<TagX>>), Some(<<TagX, TagY>>)},
        project \in {Undefined, Some(Project1)},
        search \in {Undefined, Some(<<"n", "1">>), Some(<<"M", "1">>),
                    Some(<<"t", "x", "t">>)}}

\* list_files with filters.
NextFilter ==
    \/ ListFilesCall(1, ListFilterArgs)
    \/ Return(1)

SpecFilter == InitStored(FilterTables, {DefaultConfig}) /\ [][NextFilter]_vars

\* Rows whose vectors lie at distance d of the query vector.
StoredAt(rows, d) == MapBag(rows, LAMBDA r : [r EXCEPT !.vector = <<"at", d>>])

\* Stores of a file and two memories that differ in type, tags, project and
\* distance from the query 'a'.
SearchTables ==
    {FileRows(F1, TextAB, <<TagX>>, Project1)
        (+) m1 (+) StoredAt(MemoryRows(L3, TextA, <<>>, Project1), 30) :
        m1 \in {EmptyBag, MemoryRows(L1, TextA, <<TagX, TagY>>, Null)}}

SearchConfigs ==
    {[maxDistance |-> d, grouping |-> g] :
        d \in {Undefined, Some(ScoreUnit \div 2)}, g \in {Undefined, Some("similar")}}

SearchArgs ==
    {QueryArg(TextA, limit, type, tags, project, minScore) :
        limit \in {Undefined, Some(0), Some(1), Some(2)},
        type \in {Undefined, Some("memory"), Some("file")},
        tags \in {Undefined, Some(<<TagX>>)},
        project \in {Undefined, Some(Project1)},
        minScore \in {Undefined, Some(0), Some(2 * ScoreUnit)}}

\* query_documents with filters on a store that is configured with a
\* distance threshold and grouping.
NextSearch ==
    \/ QueryDocuments(1, SearchArgs)
    \/ Return(1)

SpecSearch == InitStored(SearchTables, SearchConfigs) /\ [][NextSearch]_vars

RECURSIVE MemoriesAt(_)
\* One memory per distance of the sequence: the memory s<i> lies at distance
\* distances[i] of every query.
MemoriesAt(distances) ==
    IF distances = <<>> THEN EmptyBag
    ELSE MemoriesAt(SubSeq(distances, 1, Len(distances) - 1))
            (+) StoredAt(MemoryRows(<<"s", Len(distances)>>, TextA, <<>>, Null),
                         distances[Len(distances)])

\* Ascending distances, in 1/ScoreUnit: the five of the documented example
\* (one boundary, after the third), eight with two boundaries, three and
\* two without a boundary, one, and none.
GroupingDistances ==
    {<<10, 12, 13, 55, 58>>, <<1, 2, 3, 43, 44, 45, 85, 86>>, <<10, 20, 30>>,
     <<10, 50>>, <<10>>, <<>>}

GroupingConfigs ==
    {[maxDistance |-> Undefined, grouping |-> g] :
        g \in {Undefined, Some("similar"), Some("related")}}

\* Queries whose words occur in no stored text, so that the hybrid path
\* ranks by the vector distance alone; the limits let every row through.
GroupingArgs ==
    {QueryArg(TextB, limit, Undefined, Undefined, Undefined, Undefined) :
        limit \in {Undefined, Some(3)}}

\* query_documents on a store that is configured with a grouping mode.
NextGrouping ==
    \/ QueryDocuments(1, GroupingArgs)
    \/ Return(1)

SpecGrouping ==
    /\ InitStored({MemoriesAt(d) : d \in GroupingDistances}, GroupingConfigs)
    /\ [][NextGrouping]_vars

\* Four indexed memories that the words of the query 'a b' match: three
\* near the query and one far from it.
StaleTable ==
    MemoriesAt(<<10, 20, 30>>) (+) StoredAt(MemoryRows(L1, TextA, <<>>, Null), 150)

\* A search for one result, which takes four candidates of each retrieval.
StaleQueryArgs ==
    {QueryArg(TextAB, Some(1), Undefined, Undefined, Undefined, Undefined)}

\* A new memory, and a new text for the memory that is far from the query.
StaleMemorizeArgs ==
    {[text |-> TextB, label |-> Some(label), language |-> Null, tags |-> Undefined,
      type |-> Undefined, ttl |-> Undefined, project |-> Null, global |-> FALSE] :
        label \in {L1, L2}}

\* One client searches, again and again, while another one memorizes a
\* text that the query matches, once.
NextStale ==
    \/ QueryDocuments(1, StaleQueryArgs)
    \/ Return(1)
    \/ MemorizeText(2, StaleMemorizeArgs)

SpecStale == InitStored({StaleTable}, {DefaultConfig}) /\ [][NextStale]_vars

\* memorize_text arguments with a malformed tags value, an unknown type or
\* a malformed ttl, and without, for a stored and for a new label.
RejectArgs ==
    {[text |-> TextB, label |-> Some(label), language |-> Null, tags |-> tags,
      type |-> type, ttl |-> ttl, project |-> Null, global |-> FALSE] :
        label \in {L1, L2},
        tags \in {Undefined, Some(NotAnArray)},
        type \in {Undefined, Some("bogus")},
        ttl \in {Undefined, Some(BadTtl)}}

\* One client that memorizes with arguments that are rejected, on a store
\* that holds the memory m1.
NextReject ==
    \/ MemorizeText(1, RejectArgs)
    \/ Return(1)

SpecReject ==
    /\ InitStored({MemoryRows(L1, TextAB, <<>>, Null)}, {DefaultConfig})
    /\ [][NextReject]_vars

MaxBatchSize == 3
MaxBatchTexts == 4

\* The arrays of up to MaxBatchTexts texts out of two.
BatchTexts == UNION {[1..n -> {TextA, TextB}] : n \in 0..MaxBatchTexts}

\* A started server whose Embedder was configured with a batch size of
\* 1 .. MaxBatchSize.
InitBatch ==
    /\ table = EmptyBag
    /\ tableOpen = FALSE
    /\ ftsEnabled = FALSE
    /\ unindexed = EmptyBag
    /\ config = DefaultConfig
    /\ schema = "none"
    /\ serverInit = TRUE
    /\ chunkOverlap = 0
    /\ embModel = TRUE
    /\ loads = 1
    /\ initCalls = 0
    /\ batchSize \in 1..MaxBatchSize
    /\ now = 0
    /\ call = [s \in Slots |-> IdleCall]
    /\ ecall = [c \in Callers |-> IdleCaller]

BatchMemorizeArgs ==
    {[text |-> t, label |-> Some(L1), language |-> Null, tags |-> Undefined,
      type |-> Undefined, ttl |-> Undefined, project |-> Null, global |-> FALSE] :
        t \in {TextB, TextAB}}

\* One caller of embedBatch and one client that memorizes texts of one and
\* of two chunks.
NextBatch ==
    \/ \E texts \in BatchTexts : EmbedBatchStart(1, texts)
    \/ \E ok \in BOOLEAN : EmbedFinish(1, ok)
    \/ EmbedReturn(1)
    \/ MemorizeText(1, BatchMemorizeArgs)
    \/ Return(1)

SpecBatch == InitBatch /\ [][NextBatch]_vars

\* The rows of a file that was ingested under the old schema, at time 0.
LegacyRows(filePath, text) ==
    VectorChunks(filePath, SplitText(text, 0), EmbedTexts(SplitText(text, 0)),
                 LegacyMetadata(FileNameOf(filePath), Len(text), FileTypeOf(filePath), Null),
                 0)

\* A database directory that a server process starts on: without a table,
\* with a table of the old schema (empty or not), or with a table of the
\* current schema.
InitPersisted ==
    /\ \/ schema = "none" /\ table = EmptyBag
       \/ schema = "legacy" /\ table \in {EmptyBag, LegacyRows(F1, TextAB)}
       \/ schema = "current"
             /\ table \in {FileRows(F1, TextA, <<TagX>>, Null),
                           MemoryRows(L1, TextAB, <<>>, Null)}
    /\ tableOpen = FALSE
    /\ ftsEnabled = FALSE
    /\ unindexed = EmptyBag
    /\ config = DefaultConfig
    /\ serverInit = FALSE
    /\ chunkOverlap = 0
    /\ embModel = FALSE
    /\ loads = 0
    /\ initCalls = 0
    /\ batchSize = DefaultBatchSize
    /\ now = 0
    /\ call = [s \in Slots |-> IdleCall]
    /\ ecall = [c \in Callers |-> IdleCaller]

StartArgs ==
    {[text |-> TextB, label |-> Some(L2), language |-> Null, tags |-> Undefined,
      type |-> Undefined, ttl |-> Undefined, project |-> Null, global |-> FALSE]}

\* A server process starts on a database directory and serves one client.
NextStart ==
    \/ Tick
    \/ InitializeStart
    \/ \E ok \in BOOLEAN : InitializeFinish(ok)
    \/ \E out \in {"ok", "connect", "open", "read", "drop", "create"} :
          \E schemaFails, indexOk \in BOOLEAN : StoreInitialize(out, schemaFails, indexOk)
    \/ MemorizeText(1, StartArgs)
    \/ QueryDocuments(1, {QueryArg(TextB, Undefined, Undefined, Undefined, Undefined,
                                   Undefined)})
    \/ StatusCall(1)
    \/ Return(1)

SpecStart == InitPersisted /\ [][NextStart]_vars

\* -------------------------------------------------------------- properties
Finished(s, op) == call[s].pc = "done" /\ call[s].op = op

\* The rows stored for the source that the call of slot s works on.
Stored(s) == RowsOf(table, call[s].path)

\* The rows of a source carry the indexes 0 .. n-1, each once.
Contiguous(rows) ==
    /\ \A r \in DOMAIN rows : rows[r] = 1
    /\ \A r1, r2 \in DOMAIN rows : r1.chunkIndex = r2.chunkIndex => r1 = r2
    /\ {r.chunkIndex : r \in DOMAIN rows} = 0..(BagCardinality(rows) - 1)

\* The rows hold exactly these chunks (index and text).
SameContent(rows, chunks) ==
    /\ BagCardinality(rows) = Len(chunks)
    /\ {<<r.chunkIndex, r.text>> : r \in DOMAIN rows}
          = {<<i - 1, chunks[i]>> : i \in 1..Len(chunks)}

Mentions(e, token) == \E i \in 1..Len(e.msg) : e.msg[i] = token

\* C1: after ingest_file returns successfully for a file that already had
\* rows, the rows stored for the file are exactly the chunks this call
\* produced, with this call's metadata and timestamp: no row of the prior
\* version remains, and a re-ingest of unchanged content keeps the count.
C1_IngestReplaces ==
    (Finished(1, "ingest_file") /\ call[1].status = "ok" /\ call[1].pre # EmptyBag) =>
        LET c == call[1]
            chunks == ChunkText(c.text)
        IN /\ Stored(1) = VectorChunks(c.path, chunks, EmbedTexts(chunks),
                              IngestMetadata(c.a, c.text, c.lang, c.ts), c.ts)
           /\ BagCardinality(Stored(1)) = Len(chunks)
           /\ SameContent(c.pre, chunks) =>
                 BagCardinality(Stored(1)) = BagCardinality(c.pre)

\* A two-chunk file was re-ingested, unchanged, at a later time.
C1_Reingested ==
    /\ Finished(1, "ingest_file") /\ call[1].status = "ok"
    /\ BagCardinality(call[1].pre) = 2
    /\ SameContent(call[1].pre, ChunkText(call[1].text))
    /\ \A r \in DOMAIN call[1].pre : r.timestamp < call[1].ts

\* C2: whenever no call is under way, every filePath in the store has the
\* chunkIndex values 0 .. n-1, without duplicates and without gaps.
C2_ContiguousIndexes ==
    call[1].pc \in {"idle", "done"} =>
        \A p \in PathsOf(table) : Contiguous(RowsOf(table, p))

\* C3: when ingest_file re-ingests a file that has rows and the insert of
\* the new rows fails (the backup having been taken and the rollback having
\* gone through), the call ends with the prior rows of the file stored
\* again just as they were, vectors included, and with a DatabaseError for
\* the caller.
C3_RollbackRestores ==
    (/\ Finished(1, "ingest_file") /\ call[1].pre # EmptyBag
     /\ IsErr(call[1].insertErr) /\ call[1].backup # EmptyBag
     /\ ~IsErr(call[1].rollbackErr)) =>
        /\ Stored(1) = call[1].pre
        /\ call[1].err.name = "DatabaseError"

\* C4: at the end of an update_memory or memorize_text call on a label that
\* had rows, the rows of the memory are the complete prior version or the
\* complete new version, whether the call succeeded or failed.
C4_NoPartialReplace ==
    (call[1].pc = "done" /\ call[1].op \in {"update_memory", "memorize_text"}
        /\ call[1].pre # EmptyBag) =>
        \/ Stored(1) = call[1].pre
        \/ /\ Stored(1) = call[1].newRows
           /\ call[1].status = "ok" \/ call[1].newRows # EmptyBag

\* C5: when ingest_file's insert fails and the rollback fails too, the
\* caller's error says that the rollback failed and carries the message of
\* the insert failure.
C5_CompositeError ==
    (Finished(1, "ingest_file") /\ IsErr(call[1].insertErr) /\ IsErr(call[1].rollbackErr)) =>
        /\ call[1].status = "err"
        /\ Mentions(call[1].err, "Failed to ingest file and rollback failed: ")
        /\ \A i \in 1..Len(call[1].insertErr.msg) :
              Mentions(call[1].err, call[1].insertErr.msg[i])

\* ingest_file ended after its insert and its rollback both failed.
C5_BothFailed ==
    /\ Finished(1, "ingest_file")
    /\ call[1].insertErr = InsertFailed /\ call[1].rollbackErr = InsertFailed
    /\ call[1].backup # EmptyBag

\* C6: a call of embed or embedBatch made before the model is loaded gets
\* its vectors, and exactly one load has been performed by then.
C6_FirstCallsLoadOnce ==
    \A c \in Callers :
        (ecall[c].pc = "done" /\ ~ecall[c].sawModel) =>
            ecall[c].err = NoErr /\ loads = 1

\* C7: an embed call made after a failed load starts the load again, and
\* a call made after a successful load starts none.
C7_RetryAfterFailedLoad ==
    \A c \in Callers :
        ecall[c].pc # "idle" =>
            /\ ecall[c].afterFailure => ecall[c].loaded = 1
            /\ ecall[c].sawModel => ecall[c].loaded = 0

\* C8: after two overlapping writes of the same source have both returned
\* successfully, the store holds exactly one of the two versions, with no
\* chunkIndex twice.
C8_ExactlyOneVersion ==
    (/\ call[1].pc = "done" /\ call[2].pc = "done"
     /\ call[1].status = "ok" /\ call[2].status = "ok"
     /\ call[1].path = call[2].path) =>
        /\ Contiguous(Stored(1)) \/ Stored(1) = EmptyBag
        /\ Stored(1) = call[1].newRows \/ Stored(1) = call[2].newRows

\* C9: the rows of the file that a list_files or search call returns are
\* all the rows the file had at the call's first read, or all it had at the
\* call's last read, or none: never a mixture and never a proper part.
C9_NoHalfReplaced ==
    (call[2].pc = "done" /\ call[2].status = "ok"
        /\ call[2].op \in {"list_files", "query_documents"}) =>
        LET seen == RowsOf(call[2].obs, F1)
        IN \/ seen = EmptyBag
           \/ seen = RowsOf(call[2].first, F1)
           \/ seen = RowsOf(call[2].last, F1)

\* C10: a cleanup_expired call that returns has removed every row of each
\* source whose expiresAt is set and earlier than the time the call read,
\* and has kept every row of each source whose expiresAt is null or not
\* earlier (sources being those whose rows agree on expiresAt).
C10_CleanupExact ==
    (Finished(1, "cleanup_expired") /\ call[1].status = "ok") =>
        /\ PathsOf(table) \subseteq PathsOf(call[1].pre)
        /\ \A p \in PathsOf(call[1].pre) :
              LET rows == RowsOf(call[1].pre, p)
              IN (\A r1, r2 \in DOMAIN rows :
                     r1.metadata.expiresAt = r2.metadata.expiresAt) =>
                 \A r \in DOMAIN rows :
                    IF r.metadata.expiresAt # NoTime /\ r.metadata.expiresAt < call[1].ts
                    THEN RowsOf(table, p) = EmptyBag
                    ELSE RowsOf(table, p) = rows

\* cleanup_expired returned after removing an expired memory.
C10_ExpiredRemoved ==
    /\ Finished(1, "cleanup_expired") /\ call[1].status = "ok"
    /\ call[1].count = 1
    /\ \E r \in DOMAIN call[1].pre :
          r.metadata.expiresAt # NoTime /\ r.metadata.expiresAt < call[1].ts
    /\ table = EmptyBag

\* C11: the deletedCount that cleanup_expired returns is the number of
\* distinct filePaths whose rows the call removed: 0 when no source had an
\* expiresAt earlier than the time the call read, and 1 when the one
\* memory of the store had.
C11_DeletedCount ==
    (Finished(1, "cleanup_expired") /\ call[1].status = "ok") =>
        LET c == call[1]
            removed == {p \in PathsOf(c.pre) : RowsOf(table, p) = EmptyBag}
        IN /\ c.count = Cardinality(removed)
           /\ ExpiredPaths(c.pre, c.ts) = {} => c.count = 0
           /\ (PathsOf(c.pre) = {MemoryPath(L1)}
                  /\ \A r \in DOMAIN c.pre : IsExpired(r, c.ts)) => c.count = 1

\* cleanup_expired returned 1 after removing a memory of two chunks.
C11_TwoChunksOneSource ==
    /\ Finished(1, "cleanup_expired") /\ call[1].status = "ok"
    /\ BagCardinality(call[1].pre) = 2
    /\ PathsOf(call[1].pre) = {MemoryPath(L1)}
    /\ \A r \in DOMAIN call[1].pre : IsExpired(r, call[1].ts)
    /\ call[1].count = 1

\* The steps of delete_file(f) for a path the validators accept.
C12_DeleteState ==
    LET c == call[1]
    IN /\ (c.pc = "delete" /\ c.op = "delete_file") => "ok" \in DeleteOutcomes(c.path)
       /\ (Finished(1, "delete_file") /\ c.status = "ok") =>
             /\ \A f \in ListFiles(table) : f.filePath # c.path
             /\ Stored(1) = EmptyBag
       /\ (Finished(1, "delete_file") /\ c.status = "err") =>
             \/ Mentions(c.err, "Failed to delete chunks for file")
             \/ Mentions(c.err, "Invalid file path")

\* A delete_file that succeeds on a path without rows changes nothing in the store.
C12_DeleteAgain ==
    (/\ call[1].pc = "delete" /\ call[1].op = "delete_file"
     /\ RowsOf(table, call[1].path) = EmptyBag
     /\ call'[1].status = "ok") => UNCHANGED storeVars

\* C12: delete_file(f) can succeed whether or not f has rows (it fails only
\* for a rejected path or a failing store, never for missing rows); once it
\* has succeeded list_files has no entry for f; and a delete_file(f) that
\* follows, f having no rows, succeeds as well and leaves the store as it was.
C12_DeleteIdempotent == []C12_DeleteState /\ [][C12_DeleteAgain]_vars

\* delete_file succeeded on a file without rows, the table holding none.
C12_DeletedTwice ==
    /\ Finished(1, "delete_file") /\ call[1].status = "ok"
    /\ call[1].pre = EmptyBag /\ tableOpen /\ table = EmptyBag

\* C13 as stated: after ingest_file(f) has succeeded and returned chunkCount
\* c, list_files has an entry for f with chunkCount c, whatever the content.
C13_ListedAlways ==
    (Finished(1, "ingest_file") /\ call[1].status = "ok") =>
        \E f \in ListFiles(table) :
            f.filePath = call[1].path /\ f.chunkCount = call[1].count

\* C13, amended: after ingest_file(f) has succeeded and returned chunkCount
\* c, list_files has exactly one entry for f, with chunkCount c, when c > 0,
\* and no entry for f when c = 0 (no row is stored for such content).
C13_ListedCount ==
    (Finished(1, "ingest_file") /\ call[1].status = "ok") =>
        LET mine == {f \in ListFiles(table) : f.filePath = call[1].path}
        IN /\ call[1].count = Len(ChunkText(call[1].text))
           /\ IF call[1].count > 0
              THEN mine = {[filePath |-> call[1].path, chunkCount |-> call[1].count]}
              ELSE mine = {}

\* ingest_file returned chunkCount 2 for a file that had one row before.
C13_TwoListed ==
    /\ Finished(1, "ingest_file") /\ call[1].status = "ok"
    /\ call[1].count = 2 /\ BagCardinality(call[1].pre) = 1
    /\ \E f \in ListFiles(table) : f.filePath = call[1].path /\ f.chunkCount = 2

\* C14: when a write (ingest_file, memorize_text, update_memory) to a
\* filePath that already had rows has succeeded, the rows of the filePath
\* carry the createdAt that the rows had before the call, and an updatedAt
\* that is the time of this write and not earlier than the one before.
C14_CreatedAtKept ==
    (/\ call[1].pc = "done" /\ call[1].status = "ok"
     /\ call[1].op \in {"ingest_file", "memorize_text", "update_memory"}
     /\ call[1].pre # EmptyBag /\ Contiguous(call[1].pre)
     /\ Stored(1) = call[1].newRows) =>
        \A r \in DOMAIN Stored(1) : \A r0 \in DOMAIN call[1].pre :
            /\ r.metadata.createdAt = r0.metadata.createdAt
            /\ r.metadata.updatedAt = call[1].ts
            /\ r.metadata.updatedAt >= r0.metadata.updatedAt

\* C15: whenever no call is under way, all rows that share a filePath carry
\* the same metadata.
C15_SameMetadata ==
    call[1].pc \in {"idle", "done"} =>
        \A r1, r2 \in DOMAIN table :
            r1.filePath = r2.filePath => r1.metadata = r2.metadata

\* A list of non-empty, trimmed strings without a value twice.
CleanTags(tags) ==
    /\ \A i \in 1..Len(tags) : tags[i] # <<>> /\ Trim(tags[i]) = tags[i]
    /\ \A i, j \in 1..Len(tags) : tags[i] = tags[j] => i = j

\* C16: the tags of every stored row are non-empty, trimmed strings, no
\* value twice, whatever tags argument the writing call was given.
C16_TagsClean == \A r \in DOMAIN table : CleanTags(r.metadata.tags)

\* update_memory on a label without rows ends with an error.
C17_MissingFails ==
    (Finished(1, "update_memory") /\ call[1].pre = EmptyBag) => call[1].status = "err"

\* No step of an update_memory call on a label without rows changes the store.
C17_MissingKeeps ==
    (call[1].op = "update_memory" /\ call[1].pre = EmptyBag) => UNCHANGED storeVars

\* C17: update_memory with a label for which no memory://<label> rows exist
\* fails with an error and leaves the store unchanged: no row is created
\* and none is deleted.
C17_UpdateMissing == []C17_MissingFails /\ [][C17_MissingKeeps]_vars

\* update_memory failed for a label without rows, the store holding another memory.
C17_NotFound ==
    /\ Finished(1, "update_memory") /\ call[1].status = "err"
    /\ call[1].path = MemoryPath(L2) /\ call[1].pre = EmptyBag
    /\ Mentions(call[1].err, "Memory not found: ")
    /\ RowsOf(table, MemoryPath(L1)) # EmptyBag

RECURSIVE FreshTags(_, _)
\* The tags of add that are not in have, each once, in the order of add.
FreshTags(have, add) ==
    IF add = <<>> THEN <<>>
    ELSE IF \E i \in 1..Len(have) : have[i] = Head(add)
         THEN FreshTags(have, Tail(add))
         ELSE <<Head(add)>> \o FreshTags(Append(have, Head(add)), Tail(add))

\* The tag list that update_memory is to store, given the existing list.
ExpectedTags(existing, a) ==
    LET Trimmed(o) == IF IsGiven(o) THEN [i \in 1..Len(o[1]) |-> Trim(o[1][i])] ELSE <<>>
        gone == Trimmed(a.removeTags)
    IN IF IsGiven(a.tags) THEN Trimmed(a.tags)
       ELSE SelectSeq(existing \o FreshTags(existing, Trimmed(a.addTags)),
                      LAMBDA t : \A i \in 1..Len(gone) : gone[i] # t)

\* update_memory has succeeded on a memory whose rows agreed on their tags.
UpdatedTags ==
    /\ Finished(1, "update_memory") /\ call[1].status = "ok"
    /\ call[1].pre # EmptyBag /\ Stored(1) = call[1].newRows
    /\ \A r1, r2 \in DOMAIN call[1].pre : r1.metadata.tags = r2.metadata.tags

\* C18: the tag list update_memory stores is the tags argument when it is
\* given (addTags and removeTags are then ignored); else the existing tags
\* followed by the addTags not already present, without the tags of
\* removeTags, order preserved and unknown removeTags ignored.
C18_TagsComputed ==
    UpdatedTags =>
        \A r \in DOMAIN Stored(1) : \A r0 \in DOMAIN call[1].pre :
            r.metadata.tags = ExpectedTags(r0.metadata.tags, call[1].a)

\* The same, for a memory whose existing tags hold no value twice.
TagsComputedFromClean ==
    UpdatedTags =>
        \A r \in DOMAIN Stored(1) : \A r0 \in DOMAIN call[1].pre :
            CleanTags(r0.metadata.tags) =>
                r.metadata.tags = ExpectedTags(r0.metadata.tags, call[1].a)

\* The text that update_memory is to store for the existing text E.
ExpectedText(E, a) ==
    LET mode == IF IsGiven(a.mode) THEN a.mode[1] ELSE "replace"
        T == a.text[1]
    IN CASE mode = "replace" -> T
         [] mode = "append" -> E \o <<NL>> \o T
         [] mode = "prepend" -> T \o <<NL>> \o E

\* C19: after update_memory with a text T has succeeded on a memory whose
\* chunks, joined in ascending chunkIndex order with a newline, give E, the
\* rows of the memory are the chunks of T (mode replace or omitted), of
\* E + newline + T (append) or of T + newline + E (prepend), for every
\* supplied T.
C19_TextModes ==
    (/\ Finished(1, "update_memory") /\ call[1].status = "ok"
     /\ IsGiven(call[1].a.text) /\ call[1].pre # EmptyBag) =>
        \E sorted \in SortedByIndex(call[1].pre) :
            SameContent(Stored(1),
                ChunkText(ExpectedText(JoinLines([i \in 1..Len(sorted) |-> sorted[i].text]),
                                       call[1].a)))

\* The same, for every supplied T that is not the empty string.
TextModesNonEmpty ==
    (/\ Finished(1, "update_memory") /\ call[1].status = "ok"
     /\ IsGiven(call[1].a.text) /\ call[1].a.text # Some(<<>>)
     /\ call[1].pre # EmptyBag) =>
        \E sorted \in SortedByIndex(call[1].pre) :
            SameContent(Stored(1),
                ChunkText(ExpectedText(JoinLines([i \in 1..Len(sorted) |-> sorted[i].text]),
                                       call[1].a)))

\* C20: a query_documents call with a limit outside 1..20 (0 included) ends
\* with an error, not with results.
C20_LimitChecked ==
    (/\ Finished(2, "query_documents") /\ IsGiven(call[2].a.limit)
     /\ call[2].a.limit[1] \notin 1..MaxLimit) => call[2].status = "err"

\* C21: list_files returns at most limit entries when limit is greater than
\* 0, at most 50 entries when limit is not supplied, and every matching
\* entry when limit is 0.
C21_ListLimit ==
    (Finished(1, "list_files") /\ call[1].status = "ok") =>
        LET limit == call[1].a.limit
            n == Cardinality(call[1].files)
            all == Cardinality(PathsOf(call[1].pre))
        IN /\ (IsGiven(limit) /\ limit[1] > 0) => n <= limit[1]
           /\ ~IsGiven(limit) => n <= ListDefaultLimit
           /\ (IsGiven(limit) /\ limit[1] = 0) => n = all

\* The parts of C21 about a limit that is supplied.
ListLimitSupplied ==
    (Finished(1, "list_files") /\ call[1].status = "ok" /\ IsGiven(call[1].a.limit)) =>
        LET limit == call[1].a.limit[1]
            n == Cardinality(call[1].files)
            all == Cardinality(PathsOf(call[1].pre))
        IN IF limit > 0 THEN n = Min(limit, all) ELSE n = all

\* Whether the stored source p satisfies the filters of a, by its own rows.
SourceMatches(t, p, a) ==
    \A r \in DOMAIN RowsOf(t, p) :
        /\ (IsGiven(a.type) /\ a.type[1] = "memory") => r.filePath[1] = "memory://"
        /\ (IsGiven(a.type) /\ a.type[1] = "file") => r.filePath[1] # "memory://"
        /\ IsGiven(a.tags) =>
              {a.tags[1][i] : i \in 1..Len(a.tags[1])}
                 \subseteq {r.metadata.tags[i] : i \in 1..Len(r.metadata.tags)}
        /\ IsGiven(a.project) => r.metadata.project = a.project[1]
        /\ IsGiven(a.search) =>
              LET q == ToLowerCase(a.search[1])
                  hay == {ToLowerCase(PathChars(r.filePath)),
                          ToLowerCase(SpellAll(r.metadata.fileName))}
              IN \E h \in hay : \E i \in 1..Len(h) :
                    i + Len(q) - 1 <= Len(h) /\ SubSeq(h, i, i + Len(q) - 1) = q

\* C22: list_files without a limit returns exactly the stored sources that
\* satisfy all the supplied filters together: type, tags (all of them),
\* project (exact) and search (case-insensitive substring of the path or
\* the file name).
C22_ListFilters ==
    (Finished(1, "list_files") /\ call[1].status = "ok" /\ ~IsGiven(call[1].a.limit)) =>
        /\ {e.filePath : e \in call[1].files}
              = {p \in PathsOf(call[1].pre) : SourceMatches(call[1].pre, p, call[1].a)}
        /\ \A e1, e2 \in call[1].files : e1.filePath = e2.filePath => e1 = e2

\* A listing with all four filters that keeps one source of three.
C22_AllFiltersOneLeft ==
    /\ Finished(1, "list_files") /\ call[1].status = "ok"
    /\ call[1].a = ListArg(Some("memory"), Some(<<TagX, TagY>>), Undefined,
                           Some(<<"M", "1">>), Undefined)
    /\ Cardinality(PathsOf(call[1].pre)) = 3
    /\ {e.filePath : e \in call[1].files} = {MemoryPath(L1)}

\* Every result of the call of slot 1 satisfies the filters of its arguments
\* and the configured distance threshold.
ResultsFiltered ==
    LET a == call[1].a
    IN \A i \in 1..Len(call[1].results) :
          LET r == call[1].results[i]
          IN /\ (IsGiven(a.type) /\ a.type[1] = "memory") => r.filePath[1] = "memory://"
             /\ (IsGiven(a.type) /\ a.type[1] = "file") => r.filePath[1] # "memory://"
             /\ IsGiven(a.tags) =>
                   {a.tags[1][j] : j \in 1..Len(a.tags[1])}
                      \subseteq {r.metadata.tags[j] : j \in 1..Len(r.metadata.tags)}
             /\ IsGiven(a.project) => r.metadata.project = a.project[1]
             /\ IsGiven(a.minScore) =>
                   r.score * ScoreUnit <= a.minScore[1] * call[1].den
             /\ (IsGiven(a.minScore) /\ a.minScore[1] = 0) => r.score = 0
             /\ IsGiven(config.maxDistance) =>
                   r.score * ScoreUnit <= config.maxDistance[1] * call[1].den

\* C23: query_documents returns at most limit results, and every result
\* satisfies all the supplied filters: type, every requested tag, project,
\* score <= minScore, and score <= the configured maxDistance.
C23_SearchFiltered ==
    (Finished(1, "query_documents") /\ call[1].status = "ok") =>
        /\ Len(call[1].results)
              <= (IF IsGiven(call[1].a.limit) THEN call[1].a.limit[1] ELSE DefaultLimit)
        /\ ResultsFiltered

\* C23 for the limits that the specification admits: 1 .. 20, or none.
SearchFilteredValidLimit ==
    (/\ Finished(1, "query_documents") /\ call[1].status = "ok"
     /\ IsGiven(call[1].a.limit) => call[1].a.limit[1] \in 1..MaxLimit) =>
        /\ Len(call[1].results)
              <= (IF IsGiven(call[1].a.limit) THEN call[1].a.limit[1] ELSE DefaultLimit)
        /\ ResultsFiltered

\* A search with filters that returns a result and leaves rows out.
SearchLeftRowsOut ==
    /\ Finished(1, "query_documents") /\ call[1].status = "ok"
    /\ IsGiven(call[1].a.type) /\ IsGiven(call[1].a.tags) /\ IsGiven(call[1].a.project)
    /\ IsGiven(call[1].a.minScore) /\ IsGiven(config.maxDistance)
    /\ Len(call[1].results) = 1
    /\ BagCardinality(table) = 4

\* C24: a ttl of n months expires in the month that lies n calendar months
\* after the month of the call, on the day of the call or on the last day of
\* that month when it is shorter: '1m' on January 31 expires on February
\* 28 or 29, not on a day in March.
C24_MonthStaysInMonth ==
    (/\ Finished(1, "memorize_text") /\ call[1].status = "ok"
     /\ IsGiven(call[1].a.ttl) /\ call[1].a.ttl[1].kind = "duration"
     /\ call[1].a.ttl[1].unit = "m") =>
        \A r \in DOMAIN call[1].newRows :
                LET from == DateOf(ClockStartDay + r.timestamp)
                    to == DateOf(ClockStartDay + r.metadata.expiresAt)
                    months == from.y * 12 + from.m + call[1].a.ttl[1].n
                IN /\ to.y * 12 + to.m = months
                   /\ to.d = Min(from.d, DaysIn(months \div 12, months % 12))

\* The same for the calls that are not made on a day past the 28th.
MonthStaysFromShortDay ==
    (/\ Finished(1, "memorize_text") /\ call[1].status = "ok"
     /\ IsGiven(call[1].a.ttl) /\ call[1].a.ttl[1].kind = "duration"
     /\ call[1].a.ttl[1].unit = "m") =>
        \A r \in DOMAIN call[1].newRows :
            DateOf(ClockStartDay + r.timestamp).d <= 28 =>
                LET from == DateOf(ClockStartDay + r.timestamp)
                    to == DateOf(ClockStartDay + r.metadata.expiresAt)
                    months == from.y * 12 + from.m + call[1].a.ttl[1].n
                IN to.y * 12 + to.m = months /\ to.d = from.d

\* The minimum length of a chunk that the specification asks for.
MinChunkLength == 50

\* C25: chunkText never returns a chunk shorter than 50 characters (a text
\* whose every window is shorter yields the empty list), and the chunks
\* carry the indices 0 .. k-1 in order.
C25_NoShortChunk ==
    \A s \in Slots :
        /\ \A i \in 1..Len(call[s].chunks) : Len(call[s].chunks[i]) >= MinChunkLength
        /\ call[s].op = "memorize_text" => Contiguous(call[s].newRows)

\* The part of C25 about the indices: the rows built from the chunks of a
\* call carry 0 .. k-1.
ChunkIndicesContiguous ==
    \A s \in Slots :
        call[s].op = "memorize_text" =>
            /\ Contiguous(call[s].newRows)
            /\ call[s].newRows # EmptyBag => BagCardinality(call[s].newRows) = Len(call[s].chunks)

\* C26: memorize_text with the empty text is accepted: on an initialized
\* server the call succeeds and reports chunkCount 0; it writes no row, so
\* its label keeps no row that was not there before.
C26_EmptyAccepted ==
    (Finished(1, "memorize_text") /\ call[1].a.text = <<>>) =>
        \/ /\ call[1].status = "ok"
           /\ call[1].count = 0
           /\ call[1].newRows = EmptyBag
           /\ Stored(1) \sqsubseteq call[1].pre
        \/ /\ call[1].status = "err"
           /\ \/ Mentions(call[1].err, ChunkerNotInitialized.msg[1])
              \/ Mentions(call[1].err, NotInitialized.msg[1])

\* The insert of a call with the empty text leaves the table as it is.
C26_EmptyWritesNothing ==
    (call[1].op = "memorize_text" /\ call[1].pc = "insert" /\ call[1].a.text = <<>>)
        => table' = table

CopiesOf(t, r) ==
    BagCardinality(Keep(t, LAMBDA x : /\ x.filePath = r.filePath
                                      /\ x.chunkIndex = r.chunkIndex
                                      /\ x.text = r.text))

\* Every row of the table is still stored after the step.
RowsKept == \A r \in DOMAIN table : CopiesOf(table', r) >= CopiesOf(table, r)

\* C27: initialize() on an existing table never loses data, with or without
\* a migration, whether it succeeds or throws: the filePath, chunkIndex and
\* text of every row are still stored afterwards.
C27_InitializeKeepsRows == [][~serverInit => RowsKept]_vars

\* An initialize() that succeeds keeps every row.
StartedKeepsRows == [][(~serverInit /\ serverInit') => RowsKept]_vars

\* The rows of the step's table are the rows of the old table, each with the
\* defaults of the new fields.
MigratedWithDefaults ==
    /\ BagCardinality(table') = BagCardinality(table)
    /\ \A n \in DOMAIN table' :
          \E r \in DOMAIN table :
             /\ n.filePath = r.filePath /\ n.chunkIndex = r.chunkIndex
             /\ n.text = r.text /\ n.vector = r.vector /\ n.timestamp = r.timestamp
             /\ n.metadata.tags = <<>>
             /\ n.metadata.memoryType = Null
             /\ n.metadata.project = Null
             /\ n.metadata.expiresAt = NoTime
             /\ n.metadata.createdAt = r.timestamp
             /\ n.metadata.updatedAt = r.timestamp
             /\ n.metadata.fileName = r.metadata.fileName
             /\ n.metadata.fileSize = r.metadata.fileSize
             /\ n.metadata.fileType = r.metadata.fileType
             /\ table'[n] = table[r]

\* C28: after a successful migration of a table of the old schema every row
\* has tags = [], memoryType = null, project = null, expiresAt = null,
\* createdAt = updatedAt = its timestamp, and its fileName, fileSize and
\* fileType as before.
C28_MigrationDefaults ==
    [][(schema = "legacy" /\ schema' = "current") => MigratedWithDefaults]_vars

\* A server that started on a table of the old schema with two rows, after
\* the time of their ingestion.
C28_Migrated ==
    /\ serverInit /\ schema = "current" /\ now = 1
    /\ BagCardinality(RowsOf(table, F1)) = 2
    /\ \A r \in DOMAIN RowsOf(table, F1) :
          r.metadata.memoryType = Null /\ r.metadata.createdAt = 0

\* The report of a status call on a store without FTS index.
C29_StatusVectorOnly ==
    (Finished(1, "status") /\ call[1].status = "ok" /\ ~ftsEnabled) =>
        /\ call[1].report.ftsIndexEnabled = FALSE
        /\ call[1].report.searchMode = "vector-only"

\* A search on a store without FTS index takes the dense path only.
C29_DenseOnly ==
    (call[1].op = "query_documents" /\ ~ftsEnabled) =>
        /\ call[1].pc \notin {"fts", "vector"}
        /\ (call[1].pc = "done" /\ Len(call[1].results) > 0) => call[1].den = ScoreUnit

\* The step that opens or creates the table and fails to create the index
\* succeeds: initialize() completes, and an insert adds its rows.
C29_IndexFailureSwallowed ==
    (~tableOpen /\ tableOpen' /\ ~ftsEnabled') =>
        /\ serverInit'
        /\ serverInit =>
              /\ call'[1].pc = "done" /\ call'[1].status = "ok"
              /\ table' = table (+) call'[1].newRows

\* C29: when the creation of the full-text index fails, initialize() and
\* insertChunks still succeed, the status reports ftsIndexEnabled = false
\* and searchMode = 'vector-only', and search returns results by the dense
\* path only.
C29_FtsFailureTolerated ==
    /\ []C29_StatusVectorOnly
    /\ []C29_DenseOnly
    /\ [][C29_IndexFailureSwallowed]_vars

\* A search without FTS index that returns a row inserted by this server.
C29_DenseResult ==
    /\ Finished(1, "query_documents") /\ call[1].status = "ok" /\ ~ftsEnabled
    /\ \E i \in 1..Len(call[1].results) : call[1].results[i].filePath = MemoryPath(L2)

\* The distance of the memory s<i> of the store.
DistanceOfMemory(i) ==
    (CHOOSE r \in DOMAIN table : r.filePath = MemoryPath(<<"s", i>>)).vector[2]

\* The positions i at which the gap between the memories s<i> and s<i+1> of
\* the store exceeds mean + 1.5 * std of the gaps: with m gaps g of sum S,
\* the variance is (sum of g^2) / m - (S / m)^2, so the gap exceeds when
\* m * g > S and 4 * (m * g - S)^2 > 9 * (m * (sum of g^2) - S^2).
BoundariesOfStore ==
    LET m == BagCardinality(table) - 1
        g == [i \in 1..m |-> DistanceOfMemory(i + 1) - DistanceOfMemory(i)]
        S == Sum(g)
        squares == Sum([i \in 1..m |-> g[i] * g[i]])
    IN {i \in 1..m : /\ m * g[i] > S
                     /\ 4 * (m * g[i] - S) * (m * g[i] - S) > 9 * (m * squares - S * S)}

\* How many of the store's memories a mode keeps.
KeptOfStore(mode) ==
    LET bs == BoundariesOfStore
        before(k) == Cardinality({j \in bs : j < k})
    IN IF mode = "similar" /\ bs # {} THEN CHOOSE k \in bs : before(k) = 0
       ELSE IF mode = "related" /\ Cardinality(bs) >= 2 THEN CHOOSE k \in bs : before(k) = 1
       ELSE BagCardinality(table)

\* C30: with grouping configured, the boundaries of a list in ascending
\* distance are the positions whose gap exceeds mean + 1.5 * std of the
\* gaps; 'similar' returns the results before the first boundary, 'related'
\* the results before the second one, or all of them when there are fewer
\* than two; without a boundary, and with at most one result, the list
\* comes back unchanged.
C30_Grouping ==
    (Finished(1, "query_documents") /\ call[1].status = "ok" /\ IsGiven(config.grouping)) =>
        /\ Len(call[1].results) = Min(call[1].count, KeptOfStore(config.grouping[1]))
        /\ \A i \in 1..Len(call[1].results) :
              call[1].results[i].filePath = MemoryPath(<<"s", i>>)

\* The documented example in 'similar' mode: of the memories at 0.10, 0.12,
\* 0.13, 0.55 and 0.58 the first three come back.
C30_ExampleSimilar ==
    /\ Finished(1, "query_documents") /\ call[1].status = "ok"
    /\ config.grouping = Some("similar")
    /\ table = MemoriesAt(<<10, 12, 13, 55, 58>>)
    /\ ~IsGiven(call[1].a.limit)
    /\ Len(call[1].results) = 3

\* The documented example in 'related' mode: all five come back.
GroupingExampleRelated ==
    /\ Finished(1, "query_documents") /\ call[1].status = "ok"
    /\ config.grouping = Some("related")
    /\ table = MemoriesAt(<<10, 12, 13, 55, 58>>)
    /\ Len(call[1].results) = 5

\* Eight results with two boundaries in 'related' mode: the first six come back.
GroupingTwoBoundaries ==
    /\ Finished(1, "query_documents") /\ call[1].status = "ok"
    /\ config.grouping = Some("related")
    /\ BagCardinality(table) = 8
    /\ Len(call[1].results) = 6

\* What embedBatch returned to its caller is one vector per text, the i-th
\* being the embedding of the i-th text.
BatchInOrder ==
    \A c \in Callers :
        (ecall[c].pc = "done" /\ ecall[c].kind = "embedBatch" /\ ~IsErr(ecall[c].err)) =>
            /\ Len(ecall[c].vectors) = Len(ecall[c].texts)
            /\ \A i \in 1..Len(ecall[c].texts) :
                  ecall[c].vectors[i] = EmbedText(ecall[c].texts[i])

\* C31: embedBatch(texts) returns exactly one vector per text in the order
\* of the texts, for every number of texts and every batch size, so that
\* the vector of each stored row is the embedding of that row's own text.
C31_BatchKeepsOrder ==
    /\ BatchInOrder
    /\ \A r \in DOMAIN table : r.vector = EmbedText(r.text)

\* embedBatch has answered for four texts in groups of three and one, the
\* last text being different from the first.
C31_UnevenGroups ==
    /\ batchSize = 3
    /\ ecall[1].pc = "done" /\ ecall[1].kind = "embedBatch" /\ ~IsErr(ecall[1].err)
    /\ Len(ecall[1].texts) = 4 /\ Len(ecall[1].vectors) = 4
    /\ ecall[1].texts[1] # ecall[1].texts[4]

\* Two chunks that were embedded in two groups are stored.
BatchRowsStored ==
    /\ batchSize = 1
    /\ BagCardinality(RowsOf(table, MemoryPath(L1))) = 2

\* No two results of the list have the same filePath and chunkIndex.
DistinctKeys(results) ==
    \A i, j \in 1..Len(results) : KeyOf(results[i]) = KeyOf(results[j]) => i = j

\* The search of slot 1 has finished on the hybrid path, and neither
\* retrieval found two rows of the same filePath and chunkIndex.
HybridDone ==
    /\ Finished(1, "query_documents") /\ call[1].status = "ok"
    /\ Len(call[1].dense) > 0
    /\ DistinctKeys(call[1].dense) /\ DistinctKeys(call[1].fts)

\* The keys of a list of results.
KeysOf(results) == {KeyOf(results[i]) : i \in 1..Len(results)}

\* Whether the fused list has the candidate of this key with the score
\* 0.4 * (1 - distance / 2) + 0.6 * (1 - rank / L) as its _distance = 1 - score,
\* rank being 0 for the first FTS result and the lexical part 0 for a
\* candidate that FTS did not find; scores in 1 / (5 * ScoreUnit * L),
\* distances in 1 / ScoreUnit.
FusedAs(key) ==
    LET c == call[1]
        L == IF Len(c.fts) = 0 THEN 1 ELSE Len(c.fts)
        d == (CHOOSE r \in {c.dense[i] : i \in 1..Len(c.dense)} : KeyOf(r) = key).score
        lexical == IF key \in KeysOf(c.fts)
                   THEN L - ((CHOOSE i \in 1..Len(c.fts) : KeyOf(c.fts[i]) = key) - 1)
                   ELSE 0
    IN \E j \in 1..Len(c.fused) :
          /\ KeyOf(c.fused[j]) = key
          /\ 5 * ScoreUnit * L - c.fused[j].score
                 = (2 * ScoreUnit - d) * L + 3 * ScoreUnit * lexical

\* C32: between an insert and the end of the rebuild of the full-text
\* index, a hybrid search keeps a new row that only the dense retrieval
\* finds: the candidate is in the fused result with the dense contribution
\* alone.
C32_NewRowKept ==
    HybridDone =>
        \A key \in (KeysOf(call[1].dense) \cap call[1].stale) \ KeysOf(call[1].fts) :
            FusedAs(key)

\* Every candidate of the dense retrieval is in the fused list with its
\* score when the two retrievals found no more than candidateLimit
\* candidates together.
FusedWithinLimit ==
    (HybridDone /\ Cardinality(KeysOf(call[1].dense) \cup KeysOf(call[1].fts))
                      <= call[1].count * HybridCandidateMultiplier * 2) =>
        \A key \in KeysOf(call[1].dense) : FusedAs(key)

\* No candidate is in the fused list twice, and a candidate of both
\* retrievals that is in it has the sum of both contributions.
FusedOnce ==
    HybridDone =>
        /\ \A i, j \in 1..Len(call[1].fused) :
              KeyOf(call[1].fused[i]) = KeyOf(call[1].fused[j]) => i = j
        /\ \A key \in KeysOf(call[1].dense) \cap KeysOf(call[1].fts) \cap KeysOf(call[1].fused) :
              FusedAs(key)

\* A hybrid search found the new row by the dense retrieval only, while the
\* index did not cover it, and kept it in the fused list.
StaleRowFound ==
    /\ HybridDone
    /\ <<MemoryPath(L2), 0>> \in (KeysOf(call[1].dense) \cap call[1].stale) \ KeysOf(call[1].fts)
    /\ <<MemoryPath(L2), 0>> \in KeysOf(call[1].fused)

\* The chunks of a list are in ascending chunkIndex.
Ascending(chunks) ==
    \A i, j \in 1..Len(chunks) : i < j => chunks[i].chunkIndex <= chunks[j].chunkIndex

\* update_memory of slot 1 has its chunks and has not gone on yet.
HasChunks == call[1].op = "update_memory" /\ call[1].pc = "embed"

\* C33 as stated: what getMemoryByLabel(label) returns is ordered by
\* ascending chunkIndex, whatever the order of the table.
C33_ReturnedSorted == HasChunks => Ascending(call[1].got)

\* C33: getMemoryByLabel(label) returns exactly the rows whose filePath is
\* memory://<label>, in the order of the table, and handleUpdateMemory sorts
\* them by ascending chunkIndex before it uses them.
C33_SortedByHandler ==
    HasChunks =>
        /\ BagOfSeq(call[1].got) = RowsOf(table, MemoryPath(call[1].a.label))
        /\ BagOfSeq(call[1].sortedChunks) = RowsOf(table, MemoryPath(call[1].a.label))
        /\ Ascending(call[1].sortedChunks)

\* The table returned the second chunk of a memory before the first one.
C33_TableOrder ==
    /\ HasChunks
    /\ Len(call[1].got) = 2
    /\ call[1].got[1].chunkIndex > call[1].got[2].chunkIndex
    /\ call[1].sortedChunks[1].chunkIndex = 0

\* A store that holds a file of two chunks and two memories.
EarlyTable ==
    FileRows(F1, TextAB, <<>>, Null) (+) MemoryRows(L1, TextAB, <<>>, Null)
        (+) MemoryRows(L2, TextA, <<>>, Null)

EarlyIngestArgs ==
    {[filePath |-> F1, tags |-> Undefined, project |-> Null, global |-> FALSE]}

EarlyUpdateArgs ==
    {[label |-> l, mode |-> m, text |-> Some(TextB), tags |-> Undefined,
      addTags |-> Undefined, removeTags |-> Undefined] :
        l \in {L1, <<"m3">>}, m \in {Undefined, Some("append")}}

\* One client that ingests files and updates memories of a filled store,
\* one call at a time.
NextEarly ==
    \/ IngestFile(1, EarlyIngestArgs)
    \/ UpdateMemory(1, EarlyUpdateArgs)
    \/ Return(1)

SpecEarly ==
    /\ InitStored({EarlyTable}, {DefaultConfig})
    /\ [][NextEarly]_vars

MaxGroupingLen == 5

\* Scores in 1/ScoreUnit that a list of results is made of.
GroupingScores == {0, 10, 60}

\* The lists applyGrouping is given: every list of up to MaxGroupingLen
\* results with these scores, in any order, and the lists of
\* GroupingDistances; the i-th result is marked i.
GroupingInputs ==
    {[i \in 1..Len(d) |-> [id |-> i, score |-> d[i]]] :
        d \in GroupingDistances \cup
              UNION {[1..n -> GroupingScores] : n \in 0..MaxGroupingLen}}

\* A call of applyGrouping(results, mode) by itself: the call record holds
\* the list given in fused and the list returned in results.
ApplyGroupingCall(s, results, mode) ==
    /\ call[s].pc = "idle"
    /\ call' = [call EXCEPT ![s] =
          [IdleCall EXCEPT !.op = "applyGrouping", !.pc = "done", !.status = "ok",
                           !.a = [mode |-> mode], !.fused = results,
                           !.results = ApplyGrouping(results, mode)]]
    /\ UNCHANGED <<storeVars, serverInit, chunkOverlap, embedderVars, now, ecall>>

NextApplyGrouping ==
    \/ \E results \in GroupingInputs, mode \in {"similar", "related"} :
          ApplyGroupingCall(1, results, mode)
    \/ Return(1)

SpecApplyGrouping ==
    /\ InitStored({EmptyBag}, {DefaultConfig})
    /\ [][NextApplyGrouping]_vars

\* A text of three lines.
TextABA == <<"a", NL, "b", NL, "a">>

OverlapMemorizeArgs ==
    {[text |-> t, label |-> Some(L1), language |-> Null, tags |-> Some(<<TagX>>),
      type |-> Undefined, ttl |-> Undefined, project |-> Null, global |-> FALSE] :
        t \in {TextA, TextAB, TextABA}}

OverlapUpdateArgs ==
    {UpdateTagArg(Some(<<TagY>>), Undefined, Undefined),
     UpdateTagArg(Undefined, Some(<<TagZ>>), Undefined),
     UpdateTagArg(Undefined, Undefined, Some(<<TagX>>))}

\* A running server with an empty table whose chunker is configured
\* without overlap or with an overlap of one line.
InitOverlap ==
    /\ table = EmptyBag
    /\ tableOpen = FALSE
    /\ ftsEnabled = FALSE
    /\ unindexed = EmptyBag
    /\ config = DefaultConfig
    /\ schema = "none"
    /\ serverInit = TRUE
    /\ chunkOverlap \in {0, 1}
    /\ embModel = TRUE
    /\ loads = 1
    /\ initCalls = 0
    /\ batchSize = DefaultBatchSize
    /\ now = 0
    /\ call = [s \in Slots |-> IdleCall]
    /\ ecall = [c \in Callers |-> IdleCaller]

\* One client that stores a memory of one, two or three lines and changes
\* its tags, one call at a time; a memory of more than MaxRowsPerPath rows
\* is not updated again.
NextOverlap ==
    \/ MemorizeText(1, OverlapMemorizeArgs)
    \/ UpdateMemory(1, OverlapUpdateArgs)
    \/ Return(1)

SpecOverlap == InitOverlap /\ [][NextOverlap]_vars

\* Paths the validator rejects, one of each kind: single quote, double
\* quote, backslash, backtick, semicolon, control character, a path that is
\* not absolute, malformed memory labels, and the empty path.
RejectedPaths ==
    {<<"/", base, "txt">> : base \in {"a'b", "a\"b", "a\\b", BacktickBase, "a;b", "a\tb"}}
        \cup {<<"./", "a", "txt">>, MemoryPath(<<"bad label">>), MemoryPath(<<"a/b">>),
              MemoryPath(<<>>), <<>>}

\* Paths the validator accepts: two stored files, two stored memories and
\* a file that is not stored.
AcceptedPaths ==
    {F1, <<"/", "b", "txt">>, <<"/", "c", "txt">>, MemoryPath(L1), MemoryPath(L2)}

\* A store that holds two files, two memories, and rows whose filePath the
\* validator rejects (insertChunks does not validate the filePath).
DeleteTable ==
    FileRows(F1, TextAB, <<>>, Null) (+) FileRows(<<"/", "b", "txt">>, TextA, <<>>, Null)
        (+) MemoryRows(L1, TextAB, <<>>, Null) (+) MemoryRows(L2, TextA, <<>>, Null)
        (+) FileRows(<<"/", "a'b", "txt">>, TextA, <<>>, Null)
        (+) FileRows(<<"/", BacktickBase, "txt">>, TextA, <<>>, Null)

\* A call of VectorStore.deleteChunks(p) by itself, ending as out.
DeleteChunksCall(s, p, out) ==
    /\ call[s].pc = "idle"
    /\ DeleteChunks(p, out)
    /\ LET c == [IdleCall EXCEPT !.op = "deleteChunks", !.path = p,
                                 !.pre = RowsOf(table, p)]
       IN IF out # "ok" THEN Rethrow(s, c, DeleteError(p, out))
          ELSE Succeed(s, c)
    /\ UNCHANGED <<serverInit, chunkOverlap, embedderVars, now, ecall>>

\* One client that deletes by path, through the store and through the tool.
NextDelete ==
    \/ \E p \in AcceptedPaths \cup RejectedPaths :
          \E out \in DeleteOutcomes(p) : DeleteChunksCall(1, p, out)
    \/ DeleteFile(1, {[filePath |-> p] : p \in AcceptedPaths \cup RejectedPaths})
    \/ Return(1)

SpecDelete ==
    /\ InitStored({DeleteTable}, {DefaultConfig})
    /\ [][NextDelete]_vars

\* memorize_text of slot 1 has thrown.
MemorizeThrew == Finished(1, "memorize_text") /\ call[1].status = "err"

\* C34: a memorize_text call that is rejected for a malformed tags value,
\* an unknown type or a malformed ttl leaves the store unchanged: the rows
\* of an existing label are still stored after the call.
C34_RejectedKeepsRows ==
    (/\ MemorizeThrew
     /\ \/ call[1].a.tags = Some(NotAnArray)
        \/ call[1].a.type = Some("bogus")
        \/ call[1].a.ttl = Some(BadTtl))
        => Stored(1) = call[1].pre

\* A call that validateTags or validateMemoryType rejects leaves the rows
\* of its label as they were.
RejectedAtStartKeepsRows ==
    (/\ MemorizeThrew
     /\ call[1].a.tags = Some(NotAnArray) \/ call[1].a.type = Some("bogus"))
        => Stored(1) = call[1].pre

\* A call with a malformed ttl as its only fault was rejected after it had
\* deleted the two rows of its label.
RejectedAfterDelete ==
    /\ MemorizeThrew
    /\ call[1].a.tags = Undefined /\ call[1].a.type = Undefined
    /\ call[1].a.ttl = Some(BadTtl)
    /\ BagCardinality(call[1].pre) = 2 /\ Stored(1) = EmptyBag

\* The call of slot 1 is an ingest_file or an update_memory that has not yet
\* passed parsing, reading, chunking and embedding.
BeforeWrites ==
    /\ call[1].op \in {"ingest_file", "update_memory"}
    /\ call[1].pc \in {"get", "embed"}

\* C35: an ingest_file or update_memory that fails while parsing, chunking
\* or embedding has issued no delete and no insert: each of its steps up to
\* and including the failing one leaves every row of the table as it was,
\* the rows of its own path and the rows of every other path.
C35_EarlyFailureWritesNothing ==
    [][(\/ BeforeWrites
        \/ /\ call[1].pc = "idle"
           /\ call'[1].op \in {"ingest_file", "update_memory"})
          => /\ table' = table
             /\ unindexed' = unindexed
             /\ (call'[1].pc = "done" /\ call'[1].status = "err")
                   => RowsOf(table', call'[1].path) = call'[1].pre]_vars

\* update_memory has failed in embedBatch, after the text was chunked, and
\* the two rows of its memory are stored.
C35_EmbedFailed ==
    /\ Finished(1, "update_memory") /\ call[1].status = "err"
    /\ call[1].chunks # <<>> /\ call[1].emb = <<>> /\ call[1].newRows = EmptyBag
    /\ BagCardinality(Stored(1)) = 2
    /\ table = EarlyTable

\* ingest_file has failed in parseFile and the table is as it was.
IngestParseFailed ==
    /\ Finished(1, "ingest_file") /\ call[1].status = "err"
    /\ call[1].chunks = <<>> /\ table = EarlyTable

\* C36: applyGrouping returns a non-empty prefix of the list it is given,
\* in the same order, in both modes: nothing is reordered, no element
\* between two returned ones is dropped, and a list that is not empty does
\* not come back empty.
C36_GroupingPrefix ==
    call[1].op = "applyGrouping" =>
        LET given == call[1].fused
            returned == call[1].results
        IN /\ Len(returned) <= Len(given)
           /\ returned = SubSeq(given, 1, Len(returned))
           /\ given # <<>> => returned # <<>>

\* 'related' has cut a list of eight results at its second boundary.
C36_CutAtSecond ==
    /\ call[1].op = "applyGrouping" /\ call[1].a.mode = "related"
    /\ Len(call[1].fused) = 8 /\ Len(call[1].results) = 6

\* 'similar' has cut a list that is not in ascending order of score.
GroupingCutUnsorted ==
    /\ call[1].op = "applyGrouping" /\ call[1].a.mode = "similar"
    /\ 0 < Len(call[1].results) /\ Len(call[1].results) < Len(call[1].fused)
    /\ \E i \in 1..(Len(call[1].fused) - 1) :
          call[1].fused[i + 1].score < call[1].fused[i].score

\* update_memory of slot 1 has returned and was called without text.
TagsOnlyUpdated ==
    /\ Finished(1, "update_memory") /\ call[1].status = "ok"
    /\ ~IsGiven(call[1].a.text)

\* The chunks of a bag of rows: index and text.
ChunkTexts(rows) == MapBag(rows, LAMBDA r : [chunkIndex |-> r.chunkIndex, text |-> r.text])

TagUpdateKeepsOneChunk ==
    (/\ TagsOnlyUpdated /\ Contiguous(call[1].pre)
     /\ chunkOverlap = 0 \/ BagCardinality(call[1].pre) = 1)
        => ChunkTexts(Stored(1)) = ChunkTexts(call[1].pre)

\* With an overlap, a memory of two chunks has three after its tags changed.
OverlapRechunked ==
    /\ TagsOnlyUpdated /\ chunkOverlap = 1
    /\ Contiguous(call[1].pre) /\ BagCardinality(call[1].pre) = 2 /\ BagCardinality(Stored(1)) = 3

\* A delete by path, of the store or of the tool, has ended in slot 1.
DeleteEnded == call[1].pc = "done" /\ call[1].op \in {"deleteChunks", "delete_file"}

\* C38: deleteChunks(p) and delete_file(p) remove only rows whose filePath
\* is p: no step changes the rows of another filePath; and a path that the
\* validator rejects (a single quote, a double quote, a backslash, a
\* backtick, a semicolon, a control character, a path that is not
\* absolute, a malformed memory label) ends the call with an error and
\* with every row still stored.
C38_DeleteOnlyPath ==
    [][/\ \A q \in PathsOf(table) :
             q # call'[1].path => RowsOf(table', q) = RowsOf(table, q)
       /\ PathsOf(table') \subseteq PathsOf(table)
       /\ (call'[1].pc = "done" /\ call[1].pc # "done" /\ call'[1].path \in RejectedPaths)
             => call'[1].status = "err" /\ table' = table]_vars

\* deleteChunks has removed the two rows of a file and nothing else.
C38_FileDeleted ==
    /\ DeleteEnded /\ call[1].op = "deleteChunks" /\ call[1].status = "ok"
    /\ call[1].path = F1 /\ BagCardinality(call[1].pre) = 2
    /\ table = DeleteRows(DeleteTable, F1)

\* deleteChunks has rejected a path with a backtick whose row is stored.
DeleteRejected ==
    /\ DeleteEnded /\ call[1].op = "deleteChunks" /\ call[1].status = "err"
    /\ call[1].path = <<"/", BacktickBase, "txt">> /\ call[1].pre # EmptyBag
    /\ table = DeleteTable

====
